---- MODULE Spec2Model ----
(***************************************************************************)
(* Decision pipeline of the parts-department email system:                 *)
(*   backend/llm/router.py      LLMRouter (tiers, retry, fallback chain)   *)
(*   backend/email/processor.py EmailProcessor (classify, extract, gate,   *)
(*                              enrichment, generation)                    *)
(* Every await on an external collaborator (LLM provider, inventory        *)
(* lookup, retrieval store) is one step of the state machine; the code     *)
(* between two awaits runs inside the step that follows the first await.   *)
(* Backoff sleeps of tenacity change no program state and are not steps.   *)
(***************************************************************************)
EXTENDS Integers, Sequences, FiniteSets, TLC

(***************************************************************************)
(* Bounds of the model.                                                    *)
(***************************************************************************)
MaxProse == 1   \* prose tokens on each side of the JSON part of a model text
MaxSkus == 6    \* longest part_skus list returned by the extractor
MaxWords == 51  \* most filler words of a query given to the tier selector
MaxEmails == 3  \* most unread emails one fetch returns

(***************************************************************************)
(* Program constants.                                                      *)
(***************************************************************************)
MaxAttempts == 3              \* stop_after_attempt(3)
confidence_threshold == 75    \* settings.confidence_threshold, in hundredths
SkuCap == 5                   \* part_skus[:5]

FAST == "fast"
BALANCED == "balanced"
QUALITY == "quality"
ModelTier == {FAST, BALANCED, QUALITY}

None == [none |-> TRUE]

(***************************************************************************)
(* JSON values as json.loads produces them, tagged by their Python type.   *)
(* A dict is a function from its keys (strings) to JSON values.            *)
(***************************************************************************)
Num(n) == [num |-> n]        \* int/float; confidences are in hundredths
Str(s) == [str |-> s]
List(l) == [list |-> l]
Obj(d) == [obj |-> d]
EmptyDict == <<>>
IsNum(v) == "num" \in DOMAIN v
IsStr(v) == "str" \in DOMAIN v
Hashable(v) == "list" \notin DOMAIN v /\ "obj" \notin DOMAIN v
Truthy(v) ==
    CASE "list" \in DOMAIN v -> Len(v.list) > 0
      [] "str" \in DOMAIN v -> v.str # ""
      [] "num" \in DOMAIN v -> v.num # 0
      [] "obj" \in DOMAIN v -> DOMAIN v.obj # {}
      [] OTHER -> FALSE
Put(d, k, v) == [x \in (DOMAIN d) \cup {k} |-> IF x = k THEN v ELSE d[x]]
Get(d, k, default) == IF k \in DOMAIN d THEN d[k] ELSE default

(***************************************************************************)
(* Model texts.  A text is a sequence of tokens: the two braces, a prose   *)
(* word, a member `"k": v` whose value is a scalar or a list, and a key    *)
(* `"k":` whose value is the object that starts at the next token.         *)
(* Whitespace is not a token, so str.strip() leaves a text unchanged.      *)
(***************************************************************************)
LB == [tok |-> "{"]
RB == [tok |-> "}"]
PROSE == [tok |-> "prose"]
KV(k, v) == [k |-> k, v |-> v]
KEY(k) == [key |-> k]
IsKV(t) == "k" \in DOMAIN t
IsKEY(t) == "key" \in DOMAIN t

Positions(text, t) == {i \in 1..Len(text) : text[i] = t}
Min(S) == CHOOSE x \in S : \A y \in S : x <= y
Max(S) == CHOOSE x \in S : \A y \in S : x >= y

\* re.search(r'\{.*\}', text, re.DOTALL): leftmost "{", then the longest run
\* that ends in "}" (the star is greedy and DOTALL lets it cross lines).
\* matched = FALSE is Python's None; group is json_match.group().
re_search(text) ==
    IF Positions(text, LB) = {} THEN [matched |-> FALSE]
    ELSE LET first == Min(Positions(text, LB))
             closers == {j \in Positions(text, RB) : j > first}
         IN  IF closers = {} THEN [matched |-> FALSE]
             ELSE [matched |-> TRUE,
                   group |-> SubSeq(text, first, Max(closers))]

\* json.loads on a text that starts with "{": the members up to the
\* matching "}", a later duplicate key replacing an earlier one.
\* ok = FALSE is json.JSONDecodeError.
RECURSIVE ParseMembers(_, _, _)
ParseMembers(s, i, acc) ==
    IF i > Len(s) THEN [ok |-> FALSE]
    ELSE IF s[i] = RB THEN [ok |-> TRUE, val |-> acc, next |-> i + 1]
    ELSE IF IsKV(s[i]) THEN ParseMembers(s, i + 1, Put(acc, s[i].k, s[i].v))
    ELSE IF IsKEY(s[i]) /\ i < Len(s) /\ s[i + 1] = LB THEN
        LET inner == ParseMembers(s, i + 2, EmptyDict)
        IN  IF inner.ok
            THEN ParseMembers(s, inner.next, Put(acc, s[i].key, Obj(inner.val)))
            ELSE [ok |-> FALSE]
    ELSE [ok |-> FALSE]

json_loads(s) ==
    IF Len(s) = 0 \/ s[1] # LB THEN [ok |-> FALSE]
    ELSE LET r == ParseMembers(s, 2, EmptyDict)
         IN  IF r.ok /\ r.next = Len(s) + 1
             THEN [ok |-> TRUE, val |-> r.val]
             ELSE [ok |-> FALSE]

(***************************************************************************)
(* LLMRouter.classify_query_complexity.  A query is the list of its words  *)
(* (what query.split() returns), a word the tuple of its characters.  The  *)
(* keywords hold no whitespace, so `keyword in query.lower()` is true      *)
(* exactly when the keyword is a substring of one lowered word.            *)
(***************************************************************************)
complex_keywords ==
    {<<"a", "n", "a", "l", "y", "z", "e">>,
     <<"c", "o", "m", "p", "a", "r", "e">>,
     <<"e", "x", "p", "l", "a", "i", "n">>,
     <<"e", "v", "a", "l", "u", "a", "t", "e">>,
     <<"c", "o", "m", "p", "l", "e", "x">>,
     <<"d", "e", "t", "a", "i", "l", "e", "d">>,
     <<"c", "o", "m", "p", "r", "e", "h", "e", "n", "s", "i", "v", "e">>,
     <<"m", "u", "l", "t", "i", "p", "l", "e">>,
     <<"v", "a", "r", "i", "o", "u", "s">>}

\* str.lower() on the letters the words of the model use
LowerChar(c) ==
    CASE c = "A" -> "a" [] c = "C" -> "c" [] c = "E" -> "e" [] OTHER -> c
lower(word) == [i \in DOMAIN word |-> LowerChar(word[i])]
IsSubstring(k, w) ==
    \E i \in 1..(Len(w) - Len(k) + 1) : SubSeq(w, i, i + Len(k) - 1) = k
KeywordInQuery(query) ==
    \E keyword \in complex_keywords : \E i \in 1..Len(query) :
        IsSubstring(keyword, lower(query[i]))

\* variant: the size test on context and words comes before the keywords
classify_query_complexity_SizeFirst(query, context_length) ==
    LET query_length == Len(query)
    IN  IF query_length < 20 /\ context_length < 500 THEN FAST
        ELSE IF context_length > 2000 \/ query_length > 50 THEN BALANCED
        ELSE IF KeywordInQuery(query) THEN QUALITY
        ELSE FAST

\* variant: the first test uses <= 20
classify_query_complexity_OffByOne(query, context_length) ==
    LET query_length == Len(query)
    IN  IF query_length <= 20 /\ context_length < 500 THEN FAST
        ELSE IF KeywordInQuery(query) THEN QUALITY
        ELSE IF context_length > 2000 \/ query_length > 50 THEN BALANCED
        ELSE FAST

classify_query_complexity(query, context_length) ==
    LET query_length == Len(query)
    IN  IF query_length < 20 /\ context_length < 500 THEN FAST
        ELSE IF KeywordInQuery(query) THEN QUALITY
        ELSE IF context_length > 2000 \/ query_length > 50 THEN BALANCED
        ELSE FAST

(***************************************************************************)
(* EmailProcessor: intents, routing table, parsing of the model responses. *)
(***************************************************************************)
PARTS_ORDER == "parts_order"
SERVICE_INQUIRY == "service_inquiry"
INVOICE_REQUEST == "invoice_request"
INVENTORY_CHECK == "inventory_check"
GENERAL_INQUIRY == "general_inquiry"
COMPLAINT == "complaint"
TRANSFER_REQUEST == "transfer_request"
EmailIntent == {PARTS_ORDER, SERVICE_INQUIRY, INVOICE_REQUEST, INVENTORY_CHECK,
                GENERAL_INQUIRY, COMPLAINT, TRANSFER_REQUEST}

department_routing ==
    [i \in EmailIntent |->
        CASE i = PARTS_ORDER -> "sales"
          [] i = SERVICE_INQUIRY -> "service"
          [] i = INVOICE_REQUEST -> "accounting"
          [] i = INVENTORY_CHECK -> "sales"
          [] i = COMPLAINT -> "customer_service"
          [] i = TRANSFER_REQUEST -> "warehouse"
          [] i = GENERAL_INQUIRY -> "customer_service"]

\* variant: department_routing[intent], no default for an unlisted key
route_to_department_NoDefault(intent) ==
    IF ~Hashable(intent) THEN [ok |-> FALSE, error |-> "TypeError"]
    ELSE IF IsStr(intent) /\ intent.str \in EmailIntent
         THEN [ok |-> TRUE, department |-> department_routing[intent.str]]
         ELSE [ok |-> FALSE, error |-> "KeyError"]

\* department_routing.get(intent, "customer_service"); dict.get raises
\* TypeError on an unhashable key (a JSON list or object).
route_to_department(intent) ==
    IF ~Hashable(intent) THEN [ok |-> FALSE, error |-> "TypeError"]
    ELSE IF IsStr(intent) /\ intent.str \in EmailIntent
         THEN [ok |-> TRUE, department |-> department_routing[intent.str]]
         ELSE [ok |-> TRUE, department |-> "customer_service"]

\* the dict built when the response holds no brace-delimited part
NoJsonClassification ==
    [intent |-> Str(GENERAL_INQUIRY), confidence |-> Num(50),
     key_entities |-> List(<<>>), urgency |-> Str("medium")]
\* the dict returned by the except branch
ExceptClassification ==
    [intent |-> Str(GENERAL_INQUIRY), confidence |-> Num(30),
     key_entities |-> List(<<>>), urgency |-> Str("medium")]

\* classify_intent from the response text on: search, loads, the two
\* subscripts of the log line, and the except branch around all of them.
ClassifyText(text) ==
    LET json_match == re_search(text)
    IN  IF ~json_match.matched THEN NoJsonClassification
        ELSE LET loaded == json_loads(json_match.group)
             IN  IF ~loaded.ok THEN ExceptClassification
                 ELSE IF ~({"intent", "confidence"} \subseteq DOMAIN loaded.val)
                      THEN ExceptClassification
                      ELSE loaded.val

\* variant: a response json.loads rejects yields the prompt's skeleton
ExtractText_Skeleton(text) ==
    LET json_match == re_search(text)
    IN  IF ~json_match.matched THEN EmptyDict
        ELSE LET loaded == json_loads(json_match.group)
             IN  IF ~loaded.ok THEN [part_skus |-> List(<<>>)]
                 ELSE loaded.val

\* extract_entities from the response text on.
ExtractText(text) ==
    LET json_match == re_search(text)
    IN  IF ~json_match.matched THEN EmptyDict
        ELSE LET loaded == json_loads(json_match.group)
             IN  IF ~loaded.ok THEN EmptyDict ELSE loaded.val

\* HybridRetrieval.format_context_for_llm
NoRelevantInformation == [sentinel |-> "No relevant information found."]
format_context_for_llm(results) ==
    IF Len(results) = 0 THEN NoRelevantInformation
    ELSE [sources |-> [i \in 1..Len(results) |->
                          [source |-> i, content |-> results[i]]]]
EmptyContext == [empty |-> TRUE]     \* context = ""

\* the user prompt of generate_response: the sections appended to it
UserPrompt(classification, entities, inventory_info, context) ==
    [template |-> "response",
     intent |-> classification["intent"],
     entities |-> entities,
     inventory |-> inventory_info,
     relevant |-> IF context = EmptyContext THEN <<>> ELSE <<context>>]

Deferred(reason, department) ==
    [requires_human |-> TRUE, reason |-> reason,
     suggested_department |-> department, draft_response |-> None]

\* variant: the generated decision carries no inventory rows
Generated_NoInventory(response, department, inventory_info, confidence, model_used) ==
    [requires_human |-> FALSE, response |-> response,
     department |-> department, inventory_data |-> <<>>,
     confidence |-> confidence, model_used |-> model_used]

Generated(response, department, inventory_info, confidence, model_used) ==
    [requires_human |-> FALSE, response |-> response,
     department |-> department, inventory_data |-> inventory_info,
     confidence |-> confidence, model_used |-> model_used]

(***************************************************************************)
(* Inputs of the environment: the texts a provider may answer with, the    *)
(* classifications and entity sets a caller may pass.                      *)
(***************************************************************************)
RECURSIVE Prose(_)
Prose(n) == IF n = 0 THEN <<>> ELSE <<PROSE>> \o Prose(n - 1)
\* what surrounds the JSON part: prose, a stray brace, another object
Braces == {<<>>, <<LB>>, <<RB>>, <<LB, RB>>}
Prefixes == {Prose(n) \o b : n \in 0..MaxProse, b \in Braces}
Suffixes == {b \o Prose(n) : n \in 0..MaxProse, b \in Braces}

Optional(S) == {<<>>} \cup {<<x>> : x \in S}

TextIntents == {Str(PARTS_ORDER), Str(SERVICE_INQUIRY), Str(COMPLAINT),
                Str("spam"), List(<<>>)}
TextConfidences == {Num(40), Num(75), Num(150), Str("high")}
ClassifierObjects ==
    {<<LB>> \o i \o c \o rest \o <<RB>> :
        i \in Optional({KV("intent", v) : v \in TextIntents}),
        c \in Optional({KV("confidence", v) : v \in TextConfidences}),
        rest \in {<<>>, <<KV("key_entities", List(<<>>)),
                          KV("urgency", Str("high"))>>}}
\* no object at all, braces around prose, an object that is never closed
NonJson == {<<>>, <<LB, PROSE, RB>>, <<LB, KV("intent", Str(COMPLAINT))>>}
ClassifierTexts ==
    {pre \o o \o post :
        pre \in Prefixes, o \in ClassifierObjects \cup NonJson,
        post \in Suffixes}

SkuList(n) == [i \in 1..n |-> Str(ToString(i))]
ExtractorObjects ==
    {<<LB>> \o skus \o loc \o q \o <<RB>> :
        skus \in Optional({KV("part_skus", List(SkuList(n))) :
                               n \in 0..MaxSkus}),
        loc \in Optional({KV("location", Str("downtown"))}),
        q \in {<<>>, <<KEY("quantities"), LB, RB>>,
                     <<KEY("quantities"), LB, KV("1", Num(2)), RB>>}}
ExtractorTexts ==
    {pre \o o \o post :
        pre \in Prefixes, o \in ExtractorObjects \cup NonJson,
        post \in Suffixes}

ReplyTexts == {<<PROSE>>, <<PROSE, PROSE>>}

\* inside process_email the providers answer with bare objects or non-JSON
PipelineClassifierTexts ==
    {t \in ClassifierObjects :
        \A i \in 1..Len(t) :
            IsKV(t[i]) /\ t[i].k = "confidence" => t[i].v # Num(150)}
    \cup NonJson
PipelineExtractorTexts ==
    {<<LB>> \o skus \o <<RB>> :
        skus \in Optional({KV("part_skus", List(SkuList(n))) :
                               n \in 0..MaxSkus})}
    \cup NonJson

\* queries: filler words, then nothing or one word of interest (a
\* keyword, a keyword in capitals, a keyword inside a longer word, a word
\* that is no keyword)
FillerWord == <<"p", "a", "d", "s">>
RECURSIVE Filler(_)
Filler(n) == IF n = 0 THEN <<>> ELSE <<FillerWord>> \o Filler(n - 1)
OtherWords == {<<"A", "n", "a", "l", "y", "z", "e">>, <<"r", "e", "a", "n", "a", "l", "y", "z", "e", "d">>, <<"a", "n", "a", "l", "y", "s", "e">>}
Queries ==
    {Filler(n) \o last :
        n \in 0..MaxWords,
        last \in Optional(complex_keywords \cup OtherWords)}
ContextLengths == {0, 499, 500, 501, 1999, 2000, 2001}
\* prompts of a generate call that passes no tier
UntieredPrompts ==
    {Filler(3),
     Filler(19) \o <<<<"a", "n", "a", "l", "y", "z", "e">>>>,
     Filler(20) \o <<<<"a", "n", "a", "l", "y", "z", "e">>>>,
     Filler(30), Filler(51)}

\* arguments of a direct generate_response call
Intents == {Str(i) : i \in EmailIntent} \cup {Str("spam"), List(<<>>)}
Confidences == {Num(0), Num(40), Num(74), Num(75), Num(90), Num(150),
                Str("high")}
Classifications ==
    {[intent |-> i, confidence |-> c, key_entities |-> List(<<>>),
      urgency |-> Str("medium")] : i \in Intents, c \in Confidences}
EntitySets ==
    {EmptyDict} \cup
    {[part_skus |-> List(SkuList(n))] : n \in 0..MaxSkus} \cup
    {[part_skus |-> List(SkuList(1)), location |-> Str("downtown")]}

VARIABLES
    anthropic_client,   \* TRUE iff LLMRouter.anthropic_client is set
    mistral_api_key,    \* TRUE iff settings.mistral_api_key is set
    rpc,                \* position inside LLMRouter.generate
    tier,               \* tier argument of the running generate call
    prompt,             \* prompt argument of the running generate call
    attempt,            \* attempt number inside the running @retry call
    calls,              \* provider attempts of the running generate call
    caller,             \* the function awaiting the running generate call
    result,             \* what generate returned or raised, else None
    generate_calls,     \* generate calls made since the operation started
    log_events,         \* what the running generate call has logged, in order
    entry,              \* public operation invoked by the environment
    args,               \* arguments of a classify_query_complexity call
    pc,                 \* position of the invoked operation
    classification,     \* classification dict, else None
    entities,           \* entities dict, else None
    response_text,      \* [text |-> response_text] in classify/extract, else None
    sku_i,              \* index into part_skus[:5] of the running lookup
    inventory_info,     \* local inventory_info of generate_response
    context,            \* local context of generate_response
    inventory_calls,    \* SKUs passed to check_inventory, in call order
    retrieval_calls,    \* context_type, query of each build_rag_context call
    response_data,      \* decision returned by generate_response, else None
    ret                 \* what the invoked operation returned or raised

\* state of one inbox run: the celery task process_inbox_task or the route
\* POST /process-inbox
VARIABLES
    runner,             \* which of the two loops runs, else "none"
    auto_respond,       \* query parameter of the route
    emails,             \* ids of the fetched emails, in fetch order
    email_i,            \* index in emails of the email being handled
    bpc,                \* position of the loop
    attempted,          \* ids passed to process_email, in call order
    answers,            \* what process_email and send_email answered
    processed_count,    \* local processed_count
    responded_count,    \* local responded_count of the task
    route_results,      \* local results of the route
    mark_as_read_calls, \* ids passed to imap_listener.mark_as_read
    move_to_folder_calls, \* ids passed to imap_listener.move_to_folder
    send_email_calls,   \* ids answered through smtp_sender.send_email
    email_logs,         \* EmailLog rows added to the session
    batch_ret,          \* what the loop returned or raised, else None
    mailbox,            \* the messages of INBOX, by sequence number
    marked_read,        \* messages a mark_as_read call flagged \Seen
    needs_review        \* messages copied to the NeedsReview folder

batch == <<runner, auto_respond, emails, email_i, bpc, attempted, answers,
           processed_count, responded_count, route_results,
           mark_as_read_calls,
           move_to_folder_calls, send_email_calls, email_logs, batch_ret,
           mailbox, marked_read, needs_review>>

\* concurrent process_email coroutines: for each its position, the locals of
\* its frames and the collaborator answers it is given
VARIABLES runs

\* attempts of the running generate call that ended by the client timeout
VARIABLES timeouts

\* a direct build_rag_context call and the searches it makes in the store
VARIABLES
    rag_pc,             \* position inside build_rag_context
    rag_args,           \* arguments of the build_rag_context call
    search_calls,       \* vector_store.search calls of that call, in order
    search_results,     \* what the store returned to that call
    rag_ret             \* what build_rag_context returned

\* the shared IMAPListener called directly
VARIABLES
    connection,         \* state of self.connection, "None" when it is unset
    listener_calls      \* the calls made on the listener, in order

\* the inventory of one part in the graph database
VARIABLES
    has_inventory,      \* quantity of the HAS_INVENTORY edge of a location
    transferred,        \* the TRANSFERRED edges, in order of creation
    transfer_calls      \* the transfer_inventory calls made, in order


config == <<anthropic_client, mistral_api_key>>
router == <<rpc, tier, prompt, attempt, calls, caller, result, generate_calls,
            log_events>>
locals == <<classification, entities, response_text, inventory_info, context>>
control == <<pc, sku_i, inventory_calls, retrieval_calls, response_data, ret>>
pipeline_core == <<config, router, entry, args, locals, control, timeouts>>
rag == <<rag_pc, rag_args, search_calls, search_results, rag_ret>>
listener == <<connection, listener_calls>>
graph == <<has_inventory, transferred, transfer_calls>>
services == <<rag, listener, graph>>
vars == <<config, router, entry, args, locals, control, batch, runs, services,
         timeouts>>

Init ==
    /\ anthropic_client \in BOOLEAN
    /\ mistral_api_key \in BOOLEAN
    /\ rpc = "idle" /\ tier = "none" /\ prompt = None /\ attempt = 0
    /\ calls = <<>> /\ caller = "none" /\ result = None
    /\ generate_calls = <<>> /\ log_events = <<>>
    /\ entry = "none" /\ pc = "idle" /\ args = None
    /\ classification = None /\ entities = None /\ response_text = None
    /\ sku_i = 0 /\ inventory_info = <<>> /\ context = EmptyContext
    /\ inventory_calls = <<>> /\ retrieval_calls = <<>>
    /\ response_data = None /\ ret = None
    /\ runner = "none" /\ auto_respond = FALSE /\ emails = <<>>
    /\ email_i = 0 /\ bpc = "idle" /\ attempted = <<>> /\ answers = <<>>
    /\ processed_count = 0 /\ responded_count = 0 /\ route_results = <<>>
    /\ mark_as_read_calls = <<>> /\ move_to_folder_calls = <<>>
    /\ send_email_calls = <<>> /\ email_logs = <<>> /\ batch_ret = None
    /\ mailbox = <<>> /\ marked_read = {} /\ needs_review = {}
    /\ runs = <<>> /\ timeouts = 0
    /\ rag_pc = "idle" /\ rag_args = None /\ search_calls = <<>>
    /\ search_results = <<>> /\ rag_ret = None
    /\ connection = "None" /\ listener_calls = <<>>
    /\ has_inventory = <<>> /\ transferred = <<>> /\ transfer_calls = <<>>

(***************************************************************************)
(* LLMRouter.generate                                                      *)
(***************************************************************************)
\* the provider the running phase of generate calls
Provider(phase, t) ==
    IF phase = "primary"
    THEN CASE t = FAST -> "llama3"
           [] t = QUALITY -> "claude"
           [] OTHER -> "mistral"
    ELSE "llama3"

\* call_claude and call_mistral raise before any request when the key is
\* missing; call_llama needs no key
Configured(provider) ==
    CASE provider = "claude" -> anthropic_client
      [] provider = "mistral" -> mistral_api_key
      [] OTHER -> TRUE

\* variant: the inner try/except around the tier's call covers every tier
AfterRetryError_InnerFallbackForAll(phase, t) ==
    CASE phase = "primary" -> "mistral_fallback"
      [] phase = "mistral_fallback" -> "last_resort"
      [] OTHER -> "raised"

\* variant: the BALANCED branch has no inner try/except
AfterRetryError_NoInnerFallback(phase, t) ==
    CASE phase \in {"primary", "mistral_fallback"} -> "last_resort"
      [] OTHER -> "raised"

\* variant: the outer except clause re-raises without a last-resort call
AfterRetryError_NoLastResort(phase, t) ==
    CASE phase = "primary" /\ t = BALANCED -> "mistral_fallback"
      [] OTHER -> "raised"

\* where generate goes when the running @retry call gives up (RetryError)
AfterRetryError(phase, t) ==
    CASE phase = "primary" /\ t = BALANCED -> "mistral_fallback"
      [] phase \in {"primary", "mistral_fallback"} -> "last_resort"
      [] OTHER -> "raised"

\* variant: the QUALITY branch sets model_used as the FAST branch does
GenerateResult_CopiedModelUsed(phase, t, text) ==
    IF phase = "last_resort"
    THEN [response |-> text, model_used |-> "llama3_fallback",
          tier |-> "fallback"]
    ELSE [response |-> text,
          model_used |-> IF t = QUALITY THEN "llama3" ELSE Provider(phase, t),
          tier |-> t]

\* variant: the last-resort result is reported like the tier's own result
GenerateResult_UntaggedLastResort(phase, t, text) ==
    [response |-> text, model_used |-> Provider("primary", t), tier |-> t]

\* variant: the BALANCED fallback to call_llama is tagged like the last resort
GenerateResult_FallbackTagged(phase, t, text) ==
    IF phase \in {"last_resort", "mistral_fallback"}
    THEN [response |-> text, model_used |-> "llama3_fallback",
          tier |-> "fallback"]
    ELSE [response |-> text, model_used |-> Provider(phase, t), tier |-> t]

\* the dict generate returns for a text obtained in a phase
GenerateResult(phase, t, text) ==
    IF phase = "last_resort"
    THEN [response |-> text, model_used |-> "llama3_fallback",
          tier |-> "fallback"]
    ELSE [response |-> text, model_used |-> Provider(phase, t), tier |-> t]

\* one logger call: its level and its message (without the exception text)
LogEvent(level, message) == [level |-> level, message |-> message]

\* variant: the call_* methods re-raise without logging
AttemptLog_Silent(provider) == <<>>

\* what a failing attempt of call_* logs: the except clause of the method
\* logs the error and re-raises; the missing-key RuntimeError of call_claude
\* and call_mistral is raised before the try statement and logs nothing
AttemptLog(provider) ==
    IF Configured(provider)
    THEN <<LogEvent("error",
                    CASE provider = "claude" -> "Claude API error"
                      [] provider = "mistral" -> "Mistral API error"
                      [] OTHER -> "Llama API error")>>
    ELSE <<>>

\* what the except clauses of generate log when a call_* gives up, by the
\* position generate goes to
TransitionLog(phase) ==
    CASE phase = "mistral_fallback" ->
            <<LogEvent("warning", "Mistral failed, falling back to Llama")>>
      [] phase = "last_resort" ->
            <<LogEvent("error", "All LLM attempts failed"),
              LogEvent("info", "Attempting fallback to Llama")>>
      [] OTHER -> <<LogEvent("error", "Fallback also failed")>>


InProvider == rpc \in {"primary", "mistral_fallback", "last_resort"}

\* the texts the provider may answer the running call with
AnswerTexts ==
    CASE caller = "classify_intent" ->
            IF entry = "process_email" THEN PipelineClassifierTexts
            ELSE ClassifierTexts
      [] caller = "extract_entities" ->
            IF entry = "process_email" THEN PipelineExtractorTexts
            ELSE ExtractorTexts
      [] OTHER -> ReplyTexts

\* one attempt of the running call_* succeeds: generate returns
ProviderSucceeds ==
    /\ InProvider
    /\ Configured(Provider(rpc, tier))
    /\ \E text \in AnswerTexts :
        result' = GenerateResult(rpc, tier, text)
    /\ calls' = Append(calls, [provider |-> Provider(rpc, tier),
                               phase |-> rpc, ok |-> TRUE])
    /\ rpc' = "returned"
    /\ UNCHANGED <<config, args, batch, runs, services, timeouts, tier, prompt,
                   attempt, caller, generate_calls, log_events, entry,
                   locals, control>>

\* one attempt fails (network error, bad status, missing key, a timeout
\* that is not told apart) and tenacity has attempts left
AttemptFailsRetry ==
    /\ InProvider
    /\ attempt < MaxAttempts
    /\ calls' = Append(calls, [provider |-> Provider(rpc, tier),
                               phase |-> rpc, ok |-> FALSE])
    /\ attempt' = attempt + 1
    /\ log_events' = log_events \o AttemptLog(Provider(rpc, tier))
    /\ UNCHANGED <<config, args, batch, runs, services, rpc, tier, prompt, caller,
                   result, generate_calls, entry, locals, control>>

ProviderFailsRetry == AttemptFailsRetry /\ UNCHANGED timeouts

\* the last attempt fails: RetryError, handled by the except clauses of
\* generate
AttemptFailsLast ==
    /\ InProvider
    /\ attempt = MaxAttempts
    /\ calls' = Append(calls, [provider |-> Provider(rpc, tier),
                               phase |-> rpc, ok |-> FALSE])
    /\ rpc' = AfterRetryError(rpc, tier)
    /\ attempt' = IF rpc' = "raised" THEN attempt ELSE 1
    /\ result' = IF rpc' = "raised" THEN [error |-> "RetryError"] ELSE result
    /\ log_events' = log_events \o AttemptLog(Provider(rpc, tier))
                                \o TransitionLog(rpc')
    /\ UNCHANGED <<config, args, batch, runs, services, tier, prompt, caller,
                   generate_calls, entry, locals, control>>

ProviderFailsLast == AttemptFailsLast /\ UNCHANGED timeouts

\* variant: a timeout is not retried, the call_* method gives up at once
ProviderTimesOut_NoRetry ==
    /\ InProvider
    /\ Configured(Provider(rpc, tier))
    /\ calls' = Append(calls, [provider |-> Provider(rpc, tier),
                               phase |-> rpc, ok |-> FALSE])
    /\ rpc' = AfterRetryError(rpc, tier)
    /\ attempt' = IF rpc' = "raised" THEN attempt ELSE 1
    /\ result' = IF rpc' = "raised" THEN [error |-> "RetryError"] ELSE result
    /\ log_events' = log_events \o AttemptLog(Provider(rpc, tier))
                                \o TransitionLog(rpc')
    /\ timeouts' = timeouts + 1
    /\ UNCHANGED <<config, args, batch, runs, services, tier, prompt, caller,
                   generate_calls, entry, locals, control>>

\* the request of one attempt gets no answer within the client timeout
\* (60 s for httpx): the timeout exception passes the except clause of
\* the call_* method like any other and tenacity counts the attempt
ProviderTimesOut ==
    /\ Configured(Provider(rpc, tier))
    /\ AttemptFailsRetry \/ AttemptFailsLast
    /\ timeouts' = timeouts + 1

(***************************************************************************)
(* The steps an operation takes between two awaits end in one of: a call   *)
(* of generate, a call of check_inventory, a call of build_rag_context,    *)
(* the return of the invoked operation, or an exception leaving it.        *)
(***************************************************************************)
\* the email body, taken by its length in characters, and body[:n]
BodyPrefix == 200
BodyLengths == {0, BodyPrefix, BodyPrefix + 1}
Slice(len, n) == IF len < n THEN len ELSE n
\* variant: the FAQ query is the whole body
RetrievalQuery_WholeBody(context_type, ents, body) ==
    IF context_type = "parts"
    THEN [text |-> "parts", skus |-> Get(ents, "part_skus", List(<<>>)).list]
    ELSE [text |-> "body", chars |-> body, of |-> body]

\* the query string passed to build_rag_context: "parts " and the joined
\* SKUs, or the first 200 characters of the body
RetrievalQuery(context_type, ents, body) ==
    IF context_type = "parts"
    THEN [text |-> "parts", skus |-> Get(ents, "part_skus", List(<<>>)).list]
    ELSE [text |-> "body", chars |-> Slice(body, BodyPrefix), of |-> body]

GenerateStep(c, t, p) == [kind |-> "generate", caller |-> c, tier |-> t,
                          prompt |-> p]
InventoryStep(i, sku) == [kind |-> "inventory", i |-> i, sku |-> sku]
RetrievalStep(context_type) == [kind |-> "retrieval",
                                context_type |-> context_type]
ReturnStep(value) == [kind |-> "return", value |-> value]
RaiseStep(error) == [kind |-> "raise", error |-> error]
\* generate_response returns decision d to its caller
DecisionStep(d) == [kind |-> "decision", value |-> d]

RouterIdle ==
    /\ rpc' = "idle" /\ result' = None
    /\ UNCHANGED <<tier, prompt, attempt, calls, caller, generate_calls,
                   log_events>>

StartGenerate(c, t, p) ==
    /\ rpc' = "primary" /\ tier' = t /\ prompt' = p /\ attempt' = 1
    /\ calls' = <<>> /\ caller' = c /\ result' = None
    /\ generate_calls' = Append(generate_calls, [caller |-> c, tier |-> t])
    /\ log_events' = <<LogEvent("info", "Using tier model for query")>>

\* takes the step: sets the router variables and the control variables
\* (after entry, classification and entities have their new values)
Take(step) ==
    CASE step.kind = "generate" ->
            /\ StartGenerate(step.caller, step.tier, step.prompt)
            /\ pc' = step.caller
            /\ UNCHANGED <<sku_i, inventory_calls, retrieval_calls,
                           response_data, ret>>
      [] step.kind = "inventory" ->
            /\ RouterIdle
            /\ pc' = "check_inventory"
            /\ sku_i' = step.i
            /\ inventory_calls' = Append(inventory_calls, step.sku)
            /\ UNCHANGED <<retrieval_calls, response_data, ret>>
      [] step.kind = "retrieval" ->
            /\ RouterIdle
            /\ pc' = "build_rag_context"
            /\ \E body \in BodyLengths :
                retrieval_calls' =
                    Append(retrieval_calls,
                           [context_type |-> step.context_type,
                            query |-> RetrievalQuery(step.context_type,
                                                     entities', body)])
            /\ UNCHANGED <<sku_i, inventory_calls, response_data, ret>>
      [] step.kind = "return" ->
            /\ RouterIdle
            /\ pc' = "done"
            /\ ret' = step.value
            /\ UNCHANGED <<sku_i, inventory_calls, retrieval_calls,
                           response_data>>
      [] step.kind = "raise" ->
            /\ RouterIdle
            /\ pc' = "raised"
            /\ ret' = [error |-> step.error]
            /\ UNCHANGED <<sku_i, inventory_calls, retrieval_calls,
                           response_data>>
      [] step.kind = "decision" ->
            /\ RouterIdle
            /\ response_data' = step.value
            /\ UNCHANGED <<sku_i, inventory_calls, retrieval_calls>>
            /\ IF entry' = "generate_response"
               THEN pc' = "done" /\ ret' = step.value
               ELSE \* process_email builds its result; processed_at reads
                    \* logger._core.log_time, a private attribute that the
                    \* installed loguru may or may not have
                    \E has_log_time \in BOOLEAN :
                        IF has_log_time
                        THEN /\ pc' = "done"
                             /\ ret' = [classification |-> classification',
                                        entities |-> entities',
                                        response_data |-> step.value]
                        ELSE /\ pc' = "raised"
                             /\ ret' = [error |-> "AttributeError"]

(***************************************************************************)
(* EmailProcessor.generate_response                                        *)
(***************************************************************************)
ClassifyPrompt == [template |-> "classify_intent"]
ExtractPrompt == [template |-> "extract_entities"]

\* variant: every SKU is looked up
CappedSkus_NoCap(ents) == Get(ents, "part_skus", List(<<>>)).list

\* part_skus[:5]
CappedSkus(ents) ==
    LET part_skus == Get(ents, "part_skus", List(<<>>)).list
    IN  SubSeq(part_skus, 1, IF Len(part_skus) < SkuCap THEN Len(part_skus)
                             ELSE SkuCap)

\* variant: the generation call asks for BALANCED whatever the intent
GenerationStep_AlwaysBalanced(cls, ents, inv, ctx) ==
    GenerateStep("generate_response", BALANCED,
                 UserPrompt(cls, ents, inv, ctx))

\* the generation call of generate_response
GenerationStep(cls, ents, inv, ctx) ==
    GenerateStep("generate_response",
                 IF cls["intent"] = Str(COMPLAINT) THEN QUALITY ELSE BALANCED,
                 UserPrompt(cls, ents, inv, ctx))

\* variant: the gate compares with a hard-coded 0.5
GateStep_HardCodedThreshold(cls, ents) ==
    LET intent == cls["intent"]
        confidence == cls["confidence"]
    IN  IF ~IsNum(confidence) THEN RaiseStep("TypeError")
        ELSE IF confidence.num < 50 THEN
            LET dep == route_to_department(intent)
            IN  IF dep.ok
                THEN DecisionStep(Deferred("Low confidence classification",
                                           dep.department))
                ELSE RaiseStep(dep.error)
        ELSE IF intent \in {Str(PARTS_ORDER), Str(INVENTORY_CHECK)} THEN
            IF Truthy(Get(ents, "part_skus", List(<<>>)))
            THEN InventoryStep(1, CappedSkus(ents)[1])
            ELSE GenerationStep(cls, ents, <<>>, EmptyContext)
        ELSE IF intent = Str(SERVICE_INQUIRY) THEN RetrievalStep("faq")
        ELSE GenerationStep(cls, ents, <<>>, EmptyContext)

\* variant: the enrichment of the parts intents runs before the gate
GateStep_EnrichFirst(cls, ents) ==
    LET intent == cls["intent"]
        confidence == cls["confidence"]
    IN  IF ~IsNum(confidence) THEN RaiseStep("TypeError")
        ELSE IF intent \in {Str(PARTS_ORDER), Str(INVENTORY_CHECK)}
                /\ Truthy(Get(ents, "part_skus", List(<<>>)))
        THEN InventoryStep(1, CappedSkus(ents)[1])
        ELSE IF confidence.num < confidence_threshold THEN
            LET dep == route_to_department(intent)
            IN  IF dep.ok
                THEN DecisionStep(Deferred("Low confidence classification",
                                           dep.department))
                ELSE RaiseStep(dep.error)
        ELSE IF intent = Str(SERVICE_INQUIRY) THEN RetrievalStep("faq")
        ELSE GenerationStep(cls, ents, <<>>, EmptyContext)

\* generate_response from its entry to its first await or return
GateStep(cls, ents) ==
    LET intent == cls["intent"]
        confidence == cls["confidence"]
    IN  IF ~IsNum(confidence) THEN RaiseStep("TypeError")
        ELSE IF confidence.num < confidence_threshold THEN
            LET dep == route_to_department(intent)
            IN  IF dep.ok
                THEN DecisionStep(Deferred("Low confidence classification",
                                           dep.department))
                ELSE RaiseStep(dep.error)
        ELSE IF intent \in {Str(PARTS_ORDER), Str(INVENTORY_CHECK)} THEN
            IF Truthy(Get(ents, "part_skus", List(<<>>)))
            THEN InventoryStep(1, CappedSkus(ents)[1])
            ELSE GenerationStep(cls, ents, <<>>, EmptyContext)
        ELSE IF intent = Str(SERVICE_INQUIRY) THEN RetrievalStep("faq")
        ELSE GenerationStep(cls, ents, <<>>, EmptyContext)


\* check_inventory(sku) returns the rows of the SKU, none or one per
\* location
InventoryRows(sku) ==
    {<<>>, <<[sku |-> sku, location |-> "downtown", quantity |-> 3]>>}
\* vector_store.search returns the passages found, best first
SearchResults == {<<>>, <<"passage1">>, <<"passage1", "passage2">>}

\* the environment calls generate_response(email_data, classification,
\* entities)
Call_generate_response ==
    /\ pc = "idle"
    /\ entry' = "generate_response"
    /\ \E cls \in Classifications, ents \in EntitySets :
        /\ classification' = cls
        /\ entities' = ents
        /\ Take(GateStep(cls, ents))
    /\ UNCHANGED <<config, args, batch, runs, services, timeouts, response_text, inventory_info, context>>

\* await inventory_queries.check_inventory(sku) returns
InventoryReturns ==
    /\ pc = "check_inventory"
    /\ \E inv \in InventoryRows(CappedSkus(entities)[sku_i]) :
        inventory_info' = inventory_info \o inv
    /\ UNCHANGED <<config, args, batch, runs, services, timeouts, entry, classification, entities, response_text,
                   context>>
    /\ IF sku_i < Len(CappedSkus(entities))
       THEN Take(InventoryStep(sku_i + 1, CappedSkus(entities)[sku_i + 1]))
       ELSE Take(RetrievalStep("parts"))

\* check_inventory raises (graph database down): not inside any try
InventoryRaises ==
    /\ pc = "check_inventory"
    /\ UNCHANGED <<config, args, batch, runs, services, timeouts, entry, locals>>
    /\ Take(RaiseStep("Neo4jError"))

\* await hybrid_retrieval.build_rag_context(...) returns
RetrievalReturns ==
    /\ pc = "build_rag_context"
    /\ \E results \in SearchResults :
        context' = format_context_for_llm(results)
    /\ UNCHANGED <<config, args, batch, runs, services, timeouts, entry, classification, entities, response_text,
                   inventory_info>>
    /\ Take(GenerationStep(classification, entities, inventory_info, context'))

\* build_rag_context raises (vector store not initialized or unreachable)
RetrievalRaises ==
    /\ pc = "build_rag_context"
    /\ UNCHANGED <<config, args, batch, runs, services, timeouts, entry, locals>>
    /\ Take(RaiseStep("RuntimeError"))

\* variant: no except clause around the generation call
GenerateResponseResume_Propagates ==
    /\ pc = "generate_response"
    /\ rpc \in {"returned", "raised"}
    /\ UNCHANGED <<config, args, batch, runs, services, timeouts, entry, locals>>
    /\ LET dep == route_to_department(classification["intent"])
       IN  IF rpc = "raised" THEN Take(RaiseStep(result.error))
           ELSE IF ~dep.ok THEN Take(RaiseStep(dep.error))
           ELSE Take(DecisionStep(Generated(result.response, dep.department,
                                            inventory_info,
                                            classification["confidence"],
                                            result.model_used)))

\* generate returns to, or raises into, the try block of generate_response
GenerateResponseResume ==
    /\ pc = "generate_response"
    /\ rpc \in {"returned", "raised"}
    /\ UNCHANGED <<config, args, batch, runs, services, timeouts, entry, locals>>
    /\ LET dep == route_to_department(classification["intent"])
       IN  IF ~dep.ok THEN Take(RaiseStep(dep.error))
           ELSE IF rpc = "returned"
           THEN Take(DecisionStep(Generated(result.response, dep.department,
                                            inventory_info,
                                            classification["confidence"],
                                            result.model_used)))
           ELSE Take(DecisionStep(Deferred("Generation error: RetryError",
                                           dep.department)))

(***************************************************************************)
(* EmailProcessor.classify_intent, extract_entities, process_email         *)
(***************************************************************************)
\* the environment calls route_to_department(intent, entities); the method
\* awaits nothing and does not read entities
Call_route_to_department ==
    /\ pc = "idle"
    /\ entry' = "route_to_department"
    /\ UNCHANGED <<config, batch, runs, services, timeouts, locals>>
    /\ \E intent \in Intents :
        /\ args' = [intent |-> intent]
        /\ LET dep == route_to_department(intent)
           IN  IF dep.ok
               THEN Take(ReturnStep([department |-> dep.department]))
               ELSE Take(RaiseStep(dep.error))

Call_classify_intent ==
    /\ pc = "idle"
    /\ entry' = "classify_intent"
    /\ UNCHANGED <<config, args, batch, runs, services, timeouts, locals>>
    /\ Take(GenerateStep("classify_intent", FAST, ClassifyPrompt))

Call_extract_entities ==
    /\ pc = "idle"
    /\ entry' = "extract_entities"
    /\ UNCHANGED <<config, args, batch, runs, services, timeouts, locals>>
    /\ Take(GenerateStep("extract_entities", FAST, ExtractPrompt))

Call_process_email ==
    /\ pc = "idle"
    /\ entry' = "process_email"
    /\ UNCHANGED <<config, args, batch, runs, services, timeouts, locals>>
    /\ Take(GenerateStep("classify_intent", FAST, ClassifyPrompt))

\* generate returns to, or raises into, the try block of classify_intent;
\* inside process_email the extract_entities call follows at once
ClassifyIntentResume ==
    /\ pc = "classify_intent"
    /\ rpc \in {"returned", "raised"}
    /\ classification' = IF rpc = "returned"
                         THEN ClassifyText(result.response)
                         ELSE ExceptClassification
    /\ UNCHANGED <<config, args, batch, runs, services, timeouts, entry, entities, inventory_info, context>>
    /\ IF entry = "classify_intent"
       THEN /\ response_text' = IF rpc = "returned"
                                THEN [text |-> result.response] ELSE None
            /\ Take(ReturnStep(classification'))
       ELSE /\ response_text' = None
            /\ Take(GenerateStep("extract_entities", FAST, ExtractPrompt))

\* generate returns to, or raises into, the try block of extract_entities;
\* inside process_email generate_response is entered at once
ExtractEntitiesResume ==
    /\ pc = "extract_entities"
    /\ rpc \in {"returned", "raised"}
    /\ entities' = IF rpc = "returned" THEN ExtractText(result.response)
                   ELSE EmptyDict
    /\ UNCHANGED <<config, args, batch, runs, services, timeouts, entry, classification, inventory_info, context>>
    /\ IF entry = "extract_entities"
       THEN /\ response_text' = IF rpc = "returned"
                                THEN [text |-> result.response] ELSE None
            /\ Take(ReturnStep(entities'))
       ELSE /\ response_text' = None
            /\ Take(GateStep(classification, entities'))

\* the environment calls llm_router.generate(prompt, tier=t) itself
Call_generate ==
    /\ pc = "idle"
    /\ entry' = "generate"
    /\ UNCHANGED <<config, args, batch, runs, services, timeouts, locals>>
    /\ \/ \E t \in ModelTier :
            Take(GenerateStep("generate", t, [template |-> "direct"]))
       \/ \* tier is None: the tier is classified from the prompt alone
          \E q \in UntieredPrompts :
            Take(GenerateStep("generate", classify_query_complexity(q, 0),
                              [template |-> "direct", query |-> q]))

\* the environment classifies a query; the method awaits nothing
Call_classify_query_complexity ==
    /\ pc = "idle"
    /\ entry' = "classify_query_complexity"
    /\ UNCHANGED <<config, batch, runs, services, timeouts, locals>>
    /\ \E q \in Queries, n \in ContextLengths :
        /\ args' = [query |-> q, context_length |-> n]
        /\ Take(ReturnStep([tier |-> classify_query_complexity(q, n)]))

\* generate returns to, or raises into, the environment
GenerateResume ==
    /\ pc = "generate"
    /\ rpc \in {"returned", "raised"}
    /\ UNCHANGED <<config, args, batch, runs, services, timeouts, entry, locals>>
    /\ IF rpc = "returned" THEN Take(ReturnStep(result))
       ELSE Take(RaiseStep(result.error))

Next ==
    \/ Call_generate
    \/ Call_classify_query_complexity
    \/ Call_route_to_department
    \/ Call_classify_intent
    \/ Call_extract_entities
    \/ Call_generate_response
    \/ Call_process_email
    \/ ProviderSucceeds
    \/ ProviderFailsRetry
    \/ ProviderFailsLast
    \/ GenerateResume
    \/ ClassifyIntentResume
    \/ ExtractEntitiesResume
    \/ InventoryReturns
    \/ InventoryRaises
    \/ RetrievalReturns
    \/ RetrievalRaises
    \/ GenerateResponseResume

Spec == Init /\ [][Next]_vars

(***************************************************************************)
(* Direct generate calls with the timeouts told apart.  Every awaited      *)
(* request ends, by an answer, an error or the client timeout, and the     *)
(* event loop resumes the caller: weak fairness on those steps.            *)
(***************************************************************************)
AttemptEnds ==
    ProviderSucceeds \/ ProviderFailsRetry \/ ProviderFailsLast
        \/ ProviderTimesOut

RouterNext ==
    \/ Call_generate
    \/ ProviderSucceeds
    \/ ProviderFailsRetry
    \/ ProviderFailsLast
    \/ ProviderTimesOut
    \/ GenerateResume

RouterSpec == Init /\ [][RouterNext]_vars
RouterFairSpec ==
    RouterSpec /\ WF_vars(AttemptEnds) /\ WF_vars(GenerateResume)


(***************************************************************************)
(* Inbox runs: process_inbox_task (workers/tasks.py) and the route         *)
(* process_inbox (api/email_routes.py).  Both fetch the unread emails and  *)
(* await process_email for each; process_email is taken by its outcome: a  *)
(* Generated decision, a Deferred decision, or an exception.               *)
(***************************************************************************)
\* ids of n fetched emails (IMAP numbers of the UNSEEN search), in order
EmailIds(n) == [i \in 1..n |-> i]
Decisions == {"generated", "deferred"}
Answer(id, call, answer) == [email |-> id, call |-> call, answer |-> answer]
pipeline == <<config, router, entry, args, locals, control, timeouts,
             services>>

\* the for statement after email number i: the next email is passed to
\* process_email, or the loop is left (the task disconnects and returns,
\* the route awaits db.commit)
NextEmail(i) ==
    IF i < Len(emails')
    THEN /\ email_i' = i + 1
         /\ attempted' = Append(attempted, emails'[i + 1])
         /\ bpc' = "process_email"
         /\ batch_ret' = None
    ELSE /\ email_i' = i
         /\ attempted' = attempted
         /\ IF runner' = "process_inbox_task"
            THEN /\ bpc' = "done"
                 /\ batch_ret' = [success |-> TRUE,
                                  fetched |-> Len(emails'),
                                  processed |-> processed_count',
                                  responded |-> responded_count']
            ELSE /\ bpc' = "commit"
                 /\ batch_ret' = None

\* IMAPListener.mark_as_read and move_to_folder as the server carries them
\* out.  The id of an email is the message sequence number the UNSEEN
\* search returned; STORE and COPY address the message that has that
\* number now, and EXPUNGE renumbers the messages after the removed one.
\* A number past the end of the mailbox makes the command fail; the except
\* clause logs it.
RemoveAt(q, i) == SubSeq(q, 1, i - 1) \o SubSeq(q, i + 1, Len(q))
mark_as_read(email_id) ==
    /\ marked_read' = IF email_id \in 1..Len(mailbox)
                      THEN marked_read \cup {mailbox[email_id]}
                      ELSE marked_read
    /\ UNCHANGED <<mailbox, needs_review>>
move_to_folder(email_id) ==
    /\ IF email_id \in 1..Len(mailbox)
       THEN /\ needs_review' = needs_review \cup {mailbox[email_id]}
            /\ mailbox' = RemoveAt(mailbox, email_id)
       ELSE UNCHANGED <<mailbox, needs_review>>
    /\ UNCHANGED marked_read
imap_server == <<mailbox, marked_read, needs_review>>


\* the scheduler starts process_inbox_task
Call_process_inbox_task ==
    /\ bpc = "idle" /\ pc = "idle"
    /\ runner' = "process_inbox_task"
    /\ UNCHANGED <<marked_read, needs_review>>
    /\ UNCHANGED <<pipeline, runs, auto_respond, answers, processed_count,
                   responded_count, route_results, mark_as_read_calls,
                   move_to_folder_calls, send_email_calls, email_logs>>
    /\ \/ \* fetch_unread_emails cannot connect: the outer except returns
          /\ emails' = <<>> /\ email_i' = 0 /\ attempted' = <<>>
          /\ mailbox' = <<>>
          /\ bpc' = "done"
          /\ batch_ret' = [success |-> FALSE, error |-> "IMAP4.error"]
       \/ \E n \in 0..MaxEmails :
            /\ emails' = EmailIds(n)
            /\ mailbox' = EmailIds(n)
            /\ NextEmail(0)

\* a client posts /process-inbox
Call_process_inbox ==
    /\ bpc = "idle" /\ pc = "idle"
    /\ runner' = "process_inbox"
    /\ auto_respond' \in BOOLEAN
    /\ UNCHANGED <<marked_read, needs_review>>
    /\ UNCHANGED <<pipeline, runs, answers, processed_count, responded_count,
                   route_results, mark_as_read_calls, move_to_folder_calls,
                   send_email_calls, email_logs>>
    /\ \/ /\ emails' = <<>> /\ email_i' = 0 /\ attempted' = <<>>
          /\ mailbox' = <<>>
          /\ bpc' = "raised"
          /\ batch_ret' = [error |-> "HTTPException", status_code |-> 500]
       \/ \E n \in 0..MaxEmails :
            /\ emails' = EmailIds(n)
            /\ mailbox' = EmailIds(n)
            /\ NextEmail(0)

\* await email_processor.process_email(email_data) returns its result
ProcessEmailReturns ==
    /\ bpc = "process_email"
    /\ \E d \in Decisions :
        LET id == emails[email_i]
            respond == d = "generated"
                       /\ (runner = "process_inbox" => auto_respond)
        IN  /\ answers' = Append(answers, Answer(id, "process_email", d))
            /\ processed_count' = processed_count + 1
            /\ send_email_calls' = IF respond
                                   THEN Append(send_email_calls, id)
                                   ELSE send_email_calls
            /\ UNCHANGED <<pipeline, runs, runner, auto_respond, emails,
                           responded_count>>
            /\ IF runner = "process_inbox_task"
               THEN /\ UNCHANGED <<route_results, email_logs,
                                   mark_as_read_calls>>
                    /\ IF respond
                       THEN \* await smtp_sender.send_email(...)
                            /\ bpc' = "send_email"
                            /\ UNCHANGED imap_server
                            /\ UNCHANGED <<email_i, attempted, batch_ret,
                                           move_to_folder_calls>>
                       ELSE /\ move_to_folder_calls' =
                                   Append(move_to_folder_calls, id)
                            /\ move_to_folder(id)
                            /\ NextEmail(email_i)
               ELSE /\ email_logs' =
                           Append(email_logs,
                                  [email_id |-> id,
                                   requires_human |-> d = "deferred",
                                   status |-> IF respond THEN "responded"
                                              ELSE "processed"])
                    /\ mark_as_read_calls' = Append(mark_as_read_calls, id)
                    /\ mark_as_read(id)
                    /\ route_results' =
                           Append(route_results,
                                  [email_id |-> id,
                                   requires_human |-> d = "deferred"])
                    /\ UNCHANGED move_to_folder_calls
                    /\ NextEmail(email_i)

\* variant: no try statement inside the loop, the exception reaches the
\* outer except clause
ProcessEmailRaises_Aborts ==
    /\ bpc = "process_email"
    /\ answers' = Append(answers,
                         Answer(emails[email_i], "process_email", "raised"))
    /\ UNCHANGED imap_server
    /\ UNCHANGED <<pipeline, runs, runner, auto_respond, emails, email_i,
                   attempted, processed_count, responded_count,
                   route_results, mark_as_read_calls, move_to_folder_calls,
                   send_email_calls, email_logs>>
    /\ IF runner = "process_inbox_task"
       THEN /\ bpc' = "done"
            /\ batch_ret' = [success |-> FALSE, error |-> "Exception"]
       ELSE /\ bpc' = "raised"
            /\ batch_ret' = [error |-> "HTTPException", status_code |-> 500]

\* process_email raises: the except clause inside the loop logs the error
\* (the route also appends it to results) and the loop goes on
ProcessEmailRaises ==
    /\ bpc = "process_email"
    /\ answers' = Append(answers,
                         Answer(emails[email_i], "process_email", "raised"))
    /\ UNCHANGED imap_server
    /\ route_results' =
           IF runner = "process_inbox"
           THEN Append(route_results,
                       [email_id |-> emails[email_i], error |-> "Exception"])
           ELSE route_results
    /\ UNCHANGED <<pipeline, runs, runner, auto_respond, emails, processed_count,
                   responded_count, mark_as_read_calls, move_to_folder_calls,
                   send_email_calls, email_logs>>
    /\ NextEmail(email_i)

\* await smtp_sender.send_email(...) returns True or False in the task
SendEmailReturns ==
    /\ bpc = "send_email"
    /\ \E sent \in BOOLEAN :
        /\ answers' = Append(answers,
                             Answer(emails[email_i], "send_email", sent))
        /\ responded_count' = IF sent THEN responded_count + 1
                              ELSE responded_count
        /\ mark_as_read_calls' =
               IF sent THEN Append(mark_as_read_calls, emails[email_i])
               ELSE mark_as_read_calls
        /\ IF sent THEN mark_as_read(emails[email_i])
           ELSE UNCHANGED imap_server
    /\ UNCHANGED <<pipeline, runs, runner, auto_respond, emails, processed_count,
                   route_results, move_to_folder_calls, send_email_calls,
                   email_logs>>
    /\ NextEmail(email_i)

\* await db.commit() of the route returns or raises
CommitReturns ==
    /\ bpc = "commit"
    /\ bpc' = "done"
    /\ UNCHANGED imap_server
    /\ batch_ret' = [success |-> TRUE, total_fetched |-> Len(emails),
                     processed |-> processed_count,
                     results |-> route_results]
    /\ UNCHANGED <<pipeline, runs, runner, auto_respond, emails, email_i,
                   attempted, answers, processed_count, responded_count,
                   route_results, mark_as_read_calls, move_to_folder_calls,
                   send_email_calls, email_logs>>

CommitRaises ==
    /\ bpc = "commit"
    /\ bpc' = "raised"
    /\ UNCHANGED imap_server
    /\ batch_ret' = [error |-> "HTTPException", status_code |-> 500]
    /\ UNCHANGED <<pipeline, runs, runner, auto_respond, emails, email_i,
                   attempted, answers, processed_count, responded_count,
                   route_results, mark_as_read_calls, move_to_folder_calls,
                   send_email_calls, email_logs>>

BatchNext ==
    \/ Call_process_inbox_task
    \/ Call_process_inbox
    \/ ProcessEmailReturns
    \/ ProcessEmailRaises
    \/ SendEmailReturns
    \/ CommitReturns
    \/ CommitRaises

BatchSpec == Init /\ [][BatchNext]_vars


(***************************************************************************)
(* Concurrent process_email coroutines on one event loop.  process_email,  *)
(* classify_intent, extract_entities, generate_response and generate keep  *)
(* all they compute in locals; the module-level objects they use           *)
(* (llm_router, settings, hybrid_retrieval, inventory_queries) are only    *)
(* read.  A coroutine runs from one await to the next without interruption;*)
(* the answers of the collaborators to a run are fixed by its script.      *)
(***************************************************************************)
Runs == {"run1", "run2"}
NoneDown == [classify_intent |-> {}, extract_entities |-> {},
             generate_response |-> {}]
ClassifierAnswer(intent, confidence) ==
    <<LB, KV("intent", Str(intent)), KV("confidence", Num(confidence)), RB>>
ExtractorAnswer(n) == <<LB, KV("part_skus", List(SkuList(n))), RB>>
Script(down, classifier, extractor, inventory, retrieval, log_time) ==
    [down |-> down,
     text |-> [classify_intent |-> classifier, extract_entities |-> extractor,
               generate_response |-> <<PROSE>>],
     inventory |-> inventory, retrieval |-> retrieval,
     log_time |-> log_time]
Scripts ==
    {Script(NoneDown, ClassifierAnswer(PARTS_ORDER, 75), ExtractorAnswer(2),
            "rows", <<"passage1">>, TRUE),
     Script([NoneDown EXCEPT !.classify_intent = {"llama3"}],
            <<>>, ExtractorAnswer(1), "rows", <<>>, TRUE),
     Script([NoneDown EXCEPT !.extract_entities = {"llama3"},
                             !.generate_response = {"claude", "llama3"}],
            ClassifierAnswer(COMPLAINT, 75), <<>>, "none", <<>>, TRUE),
     Script(NoneDown, ClassifierAnswer(INVENTORY_CHECK, 75),
            ExtractorAnswer(1), "raise", <<>>, TRUE),
     Script([NoneDown EXCEPT !.generate_response = {"mistral"}],
            ClassifierAnswer(SERVICE_INQUIRY, 75), <<PROSE>>, "none", <<>>,
            FALSE),
     Script(NoneDown, ClassifierAnswer(PARTS_ORDER, 40), ExtractorAnswer(2),
            "rows", <<"passage1">>, TRUE)}

\* process_email(email_data) up to its first await, the first attempt of
\* the classification call
InitialRun(script) ==
    [script |-> script, pc |-> "classify_intent", tier |-> FAST,
     phase |-> "primary", attempt |-> 1,
     classification |-> None, entities |-> None, sku_i |-> 0,
     inventory_info |-> <<>>, context |-> EmptyContext,
     response_data |-> None, ret |-> None]

\* the run takes the step
RunTake(run, step) ==
    CASE step.kind = "generate" ->
            [run EXCEPT !.pc = step.caller, !.tier = step.tier,
                        !.phase = "primary", !.attempt = 1]
      [] step.kind = "inventory" ->
            [run EXCEPT !.pc = "check_inventory", !.sku_i = step.i]
      [] step.kind = "retrieval" ->
            [run EXCEPT !.pc = "build_rag_context"]
      [] step.kind = "raise" ->
            [run EXCEPT !.pc = "raised", !.ret = [error |-> step.error]]
      [] step.kind = "decision" ->
            IF run.script.log_time
            THEN [run EXCEPT !.pc = "done", !.response_data = step.value,
                             !.ret = [classification |-> run.classification,
                                      entities |-> run.entities,
                                      response_data |-> step.value]]
            ELSE [run EXCEPT !.pc = "raised", !.response_data = step.value,
                             !.ret = [error |-> "AttributeError"]]

\* generate has returned (outcome.ok) or raised into the awaiting function
RunResume(run, outcome) ==
    CASE run.pc = "classify_intent" ->
            RunTake([run EXCEPT !.classification =
                        IF outcome.ok
                        THEN ClassifyText(outcome.result.response)
                        ELSE ExceptClassification],
                    GenerateStep("extract_entities", FAST, ExtractPrompt))
      [] run.pc = "extract_entities" ->
            LET ents == IF outcome.ok
                        THEN ExtractText(outcome.result.response)
                        ELSE EmptyDict
            IN  RunTake([run EXCEPT !.entities = ents],
                        GateStep(run.classification, ents))
      [] run.pc = "generate_response" ->
            LET dep == route_to_department(run.classification["intent"])
            IN  IF ~dep.ok THEN RunTake(run, RaiseStep(dep.error))
                ELSE IF outcome.ok
                THEN RunTake(run, DecisionStep(
                         Generated(outcome.result.response, dep.department,
                                   run.inventory_info,
                                   run.classification["confidence"],
                                   outcome.result.model_used)))
                ELSE RunTake(run, DecisionStep(
                         Deferred("Generation error: RetryError",
                                  dep.department)))

\* the awaited call of the run answers: the code up to the next await
RunStep(run) ==
    CASE run.pc \in {"classify_intent", "extract_entities",
                     "generate_response"} ->
            LET provider == Provider(run.phase, run.tier)
                fails == \/ ~Configured(provider)
                         \/ provider \in run.script.down[run.pc]
                next == AfterRetryError(run.phase, run.tier)
            IN  IF ~fails
                THEN RunResume(run,
                         [ok |-> TRUE,
                          result |-> GenerateResult(run.phase, run.tier,
                                         run.script.text[run.pc])])
                ELSE IF run.attempt < MaxAttempts
                THEN [run EXCEPT !.attempt = @ + 1]
                ELSE IF next = "raised"
                THEN RunResume(run, [ok |-> FALSE])
                ELSE [run EXCEPT !.phase = next, !.attempt = 1]
      [] run.pc = "check_inventory" ->
            LET skus == CappedSkus(run.entities)
                inv == CHOOSE rows \in InventoryRows(skus[run.sku_i]) :
                           (rows # <<>>) <=> (run.script.inventory = "rows")
                got == [run EXCEPT !.inventory_info = @ \o inv]
            IN  IF run.script.inventory = "raise"
                THEN RunTake(run, RaiseStep("Neo4jError"))
                ELSE IF run.sku_i < Len(skus)
                THEN RunTake(got, InventoryStep(run.sku_i + 1,
                                                skus[run.sku_i + 1]))
                ELSE RunTake(got, RetrievalStep("parts"))
      [] run.pc = "build_rag_context" ->
            LET ctx == format_context_for_llm(run.script.retrieval)
            IN  RunTake([run EXCEPT !.context = ctx],
                        GenerationStep(run.classification, run.entities,
                                       run.inventory_info, ctx))

\* two emails are handed to process_email at once
StartRuns ==
    /\ runs = <<>> /\ pc = "idle" /\ bpc = "idle"
    /\ runs' \in [Runs -> {InitialRun(script) : script \in Scripts}]
    /\ UNCHANGED <<pipeline, batch>>

\* variant: the classification is kept in one attribute of the processor
\* object that every run assigns and reads
ProcessEmailStep_SharedClassification(r) ==
    /\ runs # <<>>
    /\ runs[r].pc \notin {"done", "raised"}
    /\ LET new == RunStep(runs[r])
       IN  runs' = [q \in Runs |->
                      IF q = r \/ new.classification = None THEN
                          IF q = r THEN new ELSE runs[q]
                      ELSE [runs[q] EXCEPT
                                !.classification = new.classification]]
    /\ UNCHANGED <<pipeline, batch>>

\* the event loop resumes run r
ProcessEmailStep(r) ==
    /\ runs # <<>>
    /\ runs[r].pc \notin {"done", "raised"}
    /\ runs' = [runs EXCEPT ![r] = RunStep(runs[r])]
    /\ UNCHANGED <<pipeline, batch>>

ConcurrentNext ==
    \/ StartRuns
    \/ \E r \in Runs : ProcessEmailStep(r)

ConcurrentSpec == Init /\ [][ConcurrentNext]_vars

(***************************************************************************)
(* HybridRetrieval.build_rag_context called directly.  Every retrieve_*   *)
(* method awaits vector_store.search once; the call is recorded with its   *)
(* limit and its filters.  An optional                                     *)
(* argument is None or a string, and `if location_id:` takes a string that *)
(* is not empty.                                                           *)
(***************************************************************************)
\* the recorded call vector_store.search(query, limit, filters)
search(limit, filters) == [limit |-> limit, filters |-> filters]
retrieve_context(top_k, filters) == search(top_k, filters)

PutIf(d, k, v) == IF Truthy(v) THEN Put(d, k, v) ELSE d

retrieve_parts_info(location_id) ==
    search(10,
        PutIf(Put(EmptyDict, "type", Str("parts_catalog")),
              "location_id", location_id))

retrieve_faq_DefaultLimit(department) ==
    search(5,
        PutIf(Put(EmptyDict, "type", Str("faq")), "department", department))
retrieve_faq(department) ==
    search(3,
        PutIf(Put(EmptyDict, "type", Str("faq")), "department", department))

\* build_rag_context passes no policy_type
retrieve_policy(policy_type) ==
    search(5,
        PutIf(Put(EmptyDict, "type", Str("policy")),
              "policy_type", policy_type))

build_rag_context(context_type, location_id, department) ==
    CASE context_type = "parts" -> retrieve_parts_info(location_id)
      [] context_type = "faq" -> retrieve_faq(department)
      [] context_type = "policy" -> retrieve_policy(None)
      [] OTHER ->
            retrieve_context(5,
                PutIf(PutIf(EmptyDict, "location_id", location_id),
                      "department", department))

ContextTypes == {"parts", "faq", "policy", "general", "summary"}
OptionalStrings == {None, Str(""), Str("downtown")}
OptionalDepartments == {None, Str(""), Str("support")}
StoreResults == SearchResults \cup {<<"passage2", "passage1">>}

\* the environment calls build_rag_context; the call runs to the await of
\* vector_store.search
Call_build_rag_context ==
    /\ rag_pc = "idle"
    /\ \E context_type \in ContextTypes, location_id \in OptionalStrings,
          department \in OptionalDepartments :
            /\ rag_args' = [context_type |-> context_type,
                            location_id |-> location_id,
                            department |-> department]
            /\ search_calls' =
                   Append(search_calls,
                          build_rag_context(context_type, location_id,
                                            department))
    /\ rag_pc' = "search"
    /\ UNCHANGED <<pipeline_core, batch, runs, listener, graph, search_results, rag_ret>>

\* the store answers with at most `limit` results
SearchReturns ==
    /\ rag_pc = "search"
    /\ \E results \in StoreResults :
            /\ Len(results) <= search_calls[Len(search_calls)].limit
            /\ search_results' = results
            /\ rag_ret' = format_context_for_llm(results)
    /\ rag_pc' = "done"
    /\ UNCHANGED <<pipeline_core, batch, runs, listener, graph, rag_args, search_calls>>

\* the store is not initialized or the search fails: the exception leaves
\* build_rag_context
SearchRaises ==
    /\ rag_pc = "search"
    /\ rag_pc' = "raised"
    /\ UNCHANGED <<pipeline_core, batch, runs, listener, graph, rag_args, search_calls,
                   search_results, rag_ret>>

RetrievalNext ==
    \/ Call_build_rag_context
    \/ SearchReturns
    \/ SearchRaises

RetrievalSpec == Init /\ [][RetrievalNext]_vars

(***************************************************************************)
(* The shared IMAPListener (imap_listener) called directly, in any order.  *)
(* self.connection is None until connect assigns the IMAP4_SSL object; the *)
(* object is not authenticated until login succeeds, and logged out after  *)
(* logout.  Commands on a connection that is not logged in raise           *)
(* IMAP4.error.                                                            *)
(***************************************************************************)
MaxCalls == 4
ListenerCall(call, on, outcome) ==
    [call |-> call, on |-> on, outcome |-> outcome]
ListenerReady == Len(listener_calls) < MaxCalls
\* what a command sent on the connection does
Command(call) ==
    ListenerCall(call, connection,
                 IF connection = "logged_in" THEN "ok" ELSE "error_logged")

\* fetch_unread_emails: connect() when self.connection is unset (an
\* exception of connect leaves the method), then select and search inside
\* the try, any exception giving []
FetchUnreadEmailsCall ==
    /\ ListenerReady
    /\ IF connection = "None"
       THEN \/ \* IMAP4_SSL(...) raises
               /\ connection' = "None"
               /\ listener_calls' =
                      Append(listener_calls,
                             ListenerCall("fetch_unread_emails", "None",
                                          "raised"))
            \/ \* login raises: the object stays in self.connection
               /\ connection' = "not_authenticated"
               /\ listener_calls' =
                      Append(listener_calls,
                             ListenerCall("fetch_unread_emails", "None",
                                          "raised"))
            \/ /\ connection' = "logged_in"
               /\ listener_calls' =
                      Append(listener_calls,
                             ListenerCall("fetch_unread_emails", "logged_in",
                                          "emails"))
       ELSE /\ UNCHANGED connection
            /\ listener_calls' =
                   Append(listener_calls,
                          ListenerCall("fetch_unread_emails", connection,
                                       IF connection = "logged_in"
                                       THEN "emails" ELSE "empty"))
    /\ UNCHANGED <<pipeline_core, batch, runs, rag, graph>>

MarkAsReadCall ==
    /\ ListenerReady
    /\ listener_calls' =
           Append(listener_calls,
                  IF connection = "None"
                  THEN ListenerCall("mark_as_read", "None", "returned")
                  ELSE Command("mark_as_read"))
    /\ UNCHANGED <<pipeline_core, batch, runs, rag, graph, connection>>

MoveToFolderCall ==
    /\ ListenerReady
    /\ listener_calls' =
           Append(listener_calls,
                  IF connection = "None"
                  THEN ListenerCall("move_to_folder", "None", "returned")
                  ELSE Command("move_to_folder"))
    /\ UNCHANGED <<pipeline_core, batch, runs, rag, graph, connection>>

\* disconnect: logout when self.connection is set, exceptions passed over;
\* self.connection keeps the object
DisconnectCall ==
    /\ ListenerReady
    /\ listener_calls' =
           Append(listener_calls,
                  ListenerCall("disconnect", connection, "returned"))
    /\ connection' = IF connection = "None" THEN "None" ELSE "logged_out"
    /\ UNCHANGED <<pipeline_core, batch, runs, rag, graph>>

ListenerNext ==
    \/ FetchUnreadEmailsCall
    \/ MarkAsReadCall
    \/ MoveToFolderCall
    \/ DisconnectCall

ListenerSpec == Init /\ [][ListenerNext]_vars

(***************************************************************************)
(* InventoryQueries.transfer_inventory on the stock of one part at two     *)
(* locations.  add_inventory creates the HAS_INVENTORY edges; the Cypher   *)
(* statement of a transfer runs in one transaction.                        *)
(***************************************************************************)
MaxStock == 2
MaxTransfers == 3
Locations == {"downtown", "airport"}
StockQuantities == 0..MaxStock
TransferQuantities == (0 - MaxStock - 1)..(MaxStock + 1)

\* add_inventory: MERGE the edge and SET its quantity (here: the stock the
\* transfers start from)
Call_add_inventory ==
    /\ transfer_calls = <<>>
    /\ \E location_id \in Locations \ DOMAIN has_inventory,
          quantity \in StockQuantities :
            has_inventory' = Put(has_inventory, location_id, quantity)
    /\ UNCHANGED <<pipeline_core, batch, runs, rag, listener, transferred,
                   transfer_calls>>

\* the rows the MATCH ... WHERE of the transfer statement yields
TransferMatches(from_location_id, to_location_id, quantity) ==
    /\ from_location_id \in DOMAIN has_inventory
    /\ to_location_id \in DOMAIN has_inventory
    /\ has_inventory[from_location_id] >= quantity

Call_transfer_inventory ==
    /\ Len(transfer_calls) < MaxTransfers
    /\ \E from_location_id \in Locations, quantity \in TransferQuantities :
        \E to_location_id \in Locations \ {from_location_id} :
          LET matched == TransferMatches(from_location_id, to_location_id,
                                         quantity)
              after ==
                IF matched
                THEN [l \in DOMAIN has_inventory |->
                        CASE l = from_location_id ->
                                has_inventory[l] - quantity
                          [] l = to_location_id ->
                                has_inventory[l] + quantity
                          [] OTHER -> has_inventory[l]]
                ELSE has_inventory
          IN  /\ has_inventory' = after
              /\ transferred' =
                    IF matched
                    THEN Append(transferred,
                                [from |-> from_location_id,
                                 to |-> to_location_id,
                                 quantity |-> quantity])
                    ELSE transferred
              /\ transfer_calls' =
                    Append(transfer_calls,
                           [from_location_id |-> from_location_id,
                            to_location_id |-> to_location_id,
                            quantity |-> quantity,
                            before |-> has_inventory,
                            after |-> after,
                            edges |-> Len(transferred'),
                            result |-> IF matched
                                       THEN [quantity_transferred |-> quantity]
                                       ELSE None])
    /\ UNCHANGED <<pipeline_core, batch, runs, rag, listener>>

GraphNext ==
    \/ Call_add_inventory
    \/ Call_transfer_inventory

GraphSpec == Init /\ [][GraphNext]_vars




(***************************************************************************)
(* Vocabulary of the properties.                                           *)
(***************************************************************************)
Attempts(p) == {i \in 1..Len(calls) : calls[i].provider = p}
PhaseAttempts(ph) == {i \in 1..Len(calls) : calls[i].phase = ph}
Failed(S) == \A i \in S : ~calls[i].ok
Providers == {"llama3", "claude", "mistral"}
\* a generate call is running or has just handed its outcome to its caller
InGenerate == rpc \notin {"idle"}
\* the routing table as the specification lists it
ExpectedDepartment(i) ==
    CASE i \in {PARTS_ORDER, INVENTORY_CHECK} -> "sales"
      [] i = SERVICE_INQUIRY -> "service"
      [] i = INVOICE_REQUEST -> "accounting"
      [] i = TRANSFER_REQUEST -> "warehouse"
      [] OTHER -> "customer_service"
\* generate_response has been entered with the current classification
GateReached ==
    /\ entry \in {"generate_response", "process_email"}
    /\ pc \notin {"idle", "classify_intent", "extract_entities"}
LowConfidence ==
    /\ IsNum(classification["confidence"])
    /\ classification["confidence"].num < confidence_threshold

\* C1: a classification whose confidence is below the threshold is deferred
\* to a human, whatever the intent string and the entities: the decision has
\* requires_human = TRUE, the low-confidence reason and the department of
\* the routing table for the intent.
C1_LowConfidenceDeferred ==
    (GateReached /\ LowConfidence /\ IsStr(classification["intent"]))
    => response_data =
         [requires_human |-> TRUE,
          reason |-> "Low confidence classification",
          suggested_department |->
              ExpectedDepartment(classification["intent"].str),
          draft_response |-> None]

C1_Witness ==
    /\ entry = "generate_response" /\ pc = "done"
    /\ classification["confidence"] = Num(74)
    /\ classification["intent"] = Str("spam")
    /\ "part_skus" \in DOMAIN entities
    /\ ret.requires_human
    /\ ret.suggested_department = "customer_service"

\* C2: a process_email run whose classification is below the threshold
\* makes exactly two router calls, the FAST classification call and the
\* FAST extraction call, and no inventory lookup and no retrieval call.
C2_NoGenerationBelowThreshold ==
    (entry = "process_email" /\ classification # None /\ LowConfidence)
    => /\ inventory_calls = <<>>
       /\ retrieval_calls = <<>>
       /\ Len(generate_calls) <= 2
       /\ generate_calls[1] = [caller |-> "classify_intent", tier |-> FAST]
       /\ Len(generate_calls) = 2 =>
            generate_calls[2] = [caller |-> "extract_entities", tier |-> FAST]
       /\ pc \in {"done", "raised"} => Len(generate_calls) = 2
       /\ pc \notin {"generate_response", "check_inventory",
                     "build_rag_context"}

C2_Witness ==
    /\ entry = "process_email" /\ pc = "done"
    /\ classification["confidence"] = Num(40)
    /\ classification["intent"] = Str(PARTS_ORDER)
    /\ "part_skus" \in DOMAIN entities /\ Len(entities["part_skus"].list) = 2
    /\ ret["response_data"].requires_human
    /\ Len(generate_calls) = 2

\* C3: when the provider of the requested tier fails its first two attempts
\* and succeeds on the third, generate returns that provider's text with
\* model_used naming it and the requested tier: three provider calls were
\* made, all to that provider, and nothing is tagged as a fallback.
C3_ThirdAttemptSucceeds ==
    (InGenerate /\ Len(calls) >= 3
       /\ ~calls[1].ok /\ ~calls[2].ok /\ calls[3].ok)
    => /\ rpc = "returned"
       /\ Len(calls) = 3
       /\ \A i \in 1..3 : calls[i].provider = calls[3].provider
                          /\ calls[i].phase = "primary"
       /\ result.model_used = calls[3].provider
       /\ result.model_used =
            (CASE tier = FAST -> "llama3" [] tier = QUALITY -> "claude"
               [] OTHER -> "mistral")
       /\ result.tier = tier

C3_Witness ==
    /\ entry = "generate" /\ pc = "done"
    /\ Len(calls) = 3 /\ ~calls[1].ok /\ ~calls[2].ok /\ calls[3].ok
    /\ ret.model_used = "claude" /\ ret.tier = QUALITY

Last(q) == q[Len(q)]
\* provider attempts generate makes before its last-resort call
TierBudget == IF tier = BALANCED THEN 2 * MaxAttempts ELSE MaxAttempts
LastResortFailed ==
    /\ Cardinality(PhaseAttempts("last_resort")) = 3
    /\ Failed(PhaseAttempts("last_resort"))

\* C4 as stated: within one generate call no provider is attempted more
\* than 3 times in total (so a FAST-tier call makes at most 3 calls to the
\* FAST provider).
C4_AtMostThreePerProvider ==
    \A p \in Providers : Cardinality(Attempts(p)) <= 3

\* C4 as amended: the retry budget is per provider call.  Each call_*
\* invocation makes at most 3 attempts, a later attempt is made only after
\* every earlier one failed, the phases follow each other without going
\* back, the mid-tier and quality providers get at most 3 attempts and the
\* FAST provider at most 6, because the last-resort call retries it with a
\* fresh budget.  A FAST-tier call calls no other provider and fails after
\* exactly 6 calls of the FAST provider.
C4_BudgetPerProviderCall ==
    /\ \A ph \in {"primary", "mistral_fallback", "last_resort"} :
          Cardinality(PhaseAttempts(ph)) <= 3
    /\ \A i \in 1..Len(calls) : \A j \in 1..Len(calls) :
          i < j => /\ ~calls[i].ok
                   /\ calls[i].phase = calls[j].phase
                        => calls[i].provider = calls[j].provider
                   /\ calls[j].phase = "primary" => calls[i].phase = "primary"
                   /\ calls[i].phase = "last_resort"
                        => calls[j].phase = "last_resort"
    /\ Cardinality(Attempts("claude")) <= 3
    /\ Cardinality(Attempts("mistral")) <= 3
    /\ Cardinality(Attempts("llama3")) <= 6
    /\ tier = FAST =>
          /\ Attempts("llama3") = 1..Len(calls)
          /\ rpc = "raised" => Len(calls) = 6

C4_Witness ==
    /\ entry = "generate" /\ pc = "raised" /\ tier = FAST
    /\ Cardinality(Attempts("llama3")) = 6
    /\ ret.error = "RetryError"

\* C5 as stated: a QUALITY-tier call never returns text produced by a
\* provider other than the quality provider.
C5_QualityOnlyFromQualityProvider ==
    (tier = QUALITY /\ rpc = "returned") => Last(calls).provider = "claude"

\* C5 as amended: a QUALITY-tier call has no tier-level fallback.  A result
\* with tier = quality always carries the quality provider's text; when the
\* quality provider has failed all 3 attempts (or is not configured) the
\* only other provider tried is the FAST provider in the last-resort call,
\* and its result is tagged model_used = llama3_fallback, tier = fallback;
\* the call raises only when that call fails too.
C5_QualityDegradesOnlyTagged ==
    tier = QUALITY =>
      /\ Attempts("mistral") = {}
      /\ PhaseAttempts("mistral_fallback") = {}
      /\ ~anthropic_client => Failed(Attempts("claude"))
      /\ rpc = "returned" =>
           \/ /\ Last(calls).provider = "claude"
              /\ result.model_used = "claude" /\ result.tier = QUALITY
           \/ /\ Last(calls).provider = "llama3"
              /\ Last(calls).phase = "last_resort"
              /\ Cardinality(Attempts("claude")) = 3
              /\ Failed(Attempts("claude"))
              /\ result.model_used = "llama3_fallback"
              /\ result.tier = "fallback"
      /\ rpc = "raised" => Len(calls) = 6 /\ Failed(1..6)

C5_Witness ==
    /\ entry = "generate" /\ pc = "done" /\ tier = QUALITY
    /\ ~anthropic_client
    /\ Cardinality(Attempts("claude")) = 3
    /\ Last(calls).provider = "llama3"
    /\ ret.model_used = "llama3_fallback" /\ ret.tier = "fallback"

\* C6: a BALANCED-tier call tries the mid-tier provider first; the FAST
\* provider is called as the fallback only after the mid-tier provider has
\* failed its 3 attempts (which it always does when it is not configured),
\* in one call_llama call, and a fallback that succeeds returns model_used
\* = llama3 with the requested tier.
C6_BalancedFallsBackToFast ==
    tier = BALANCED =>
      /\ calls # <<>> => calls[1].provider = "mistral"
      /\ Attempts("mistral") \subseteq 1..3
      /\ ~mistral_api_key => Failed(Attempts("mistral"))
      /\ \A i \in Attempts("llama3") :
            /\ i > 3
            /\ \A j \in 1..3 : calls[j].provider = "mistral" /\ ~calls[j].ok
      /\ (InGenerate /\ Len(calls) = 3 /\ Failed(1..3))
            => rpc = "mistral_fallback"
      /\ PhaseAttempts("mistral_fallback") \subseteq 4..6
      /\ (InGenerate /\ calls # <<>> /\ Last(calls).ok
            /\ Last(calls).phase = "mistral_fallback")
            => /\ rpc = "returned"
               /\ result.model_used = "llama3"
               /\ result.tier = BALANCED

C6_Witness ==
    /\ entry = "generate" /\ pc = "done" /\ tier = BALANCED
    /\ ~mistral_api_key
    /\ Len(calls) = 4 /\ Last(calls).provider = "llama3"
    /\ ret.model_used = "llama3" /\ ret.tier = BALANCED

\* C7: for every tier, once the tier's provider (and for BALANCED the
\* fallback) has failed all its attempts, generate makes one last-resort
\* call of the FAST provider, and generate raises exactly when that call
\* fails too.
C7_LastResortThenFatal ==
    /\ InGenerate =>
         /\ (Len(calls) >= TierBudget /\ Failed(1..TierBudget))
              => /\ rpc \in {"last_resort", "returned", "raised"}
                 /\ \A i \in (TierBudget + 1)..Len(calls) :
                       /\ calls[i].phase = "last_resort"
                       /\ calls[i].provider = "llama3"
         /\ PhaseAttempts("last_resort") # {}
              => /\ Len(calls) > TierBudget /\ Failed(1..TierBudget)
                 /\ Len(calls) <= TierBudget + 3
         /\ rpc = "raised" <=> LastResortFailed
    /\ (entry = "generate" /\ pc \in {"done", "raised"})
         => (pc = "raised" <=> LastResortFailed)

C7_Witness ==
    /\ entry = "generate" /\ pc = "raised" /\ tier = BALANCED
    /\ Len(calls) = 9 /\ LastResortFailed

\* a model response that holds no JSON object at all: none of its parts is
\* an object json.loads accepts
NoValidObject(text) ==
    \A i \in 1..Len(text) : \A j \in i..Len(text) :
        ~json_loads(SubSeq(text, i, j)).ok

\* C8: classify_intent never raises and, for every response text and every
\* outcome of the router call, returns a dict that has the four keys
\* intent, confidence, key_entities and urgency.
C8_AlwaysFullClassification ==
    entry = "classify_intent" =>
      /\ pc # "raised"
      /\ pc = "done" =>
           {"intent", "confidence", "key_entities", "urgency"}
               \subseteq DOMAIN ret

\* C9: a response that is not JSON (no braces, or braces around something
\* json.loads rejects) yields the parse-failure default with confidence
\* 0.5; the 0.3 default is kept for a failure of the router call.
C9_MalformedGivesParseDefault ==
    (entry = "classify_intent" /\ pc = "done"
       /\ response_text # None /\ NoValidObject(response_text.text))
    => ret = [intent |-> Str(GENERAL_INQUIRY), confidence |-> Num(50),
              key_entities |-> List(<<>>), urgency |-> Str("medium")]

\* C10: extract_entities never raises; when the router call fails, and
\* when the response holds no JSON object, it returns the empty dict.
C10_ExtractFailsToEmpty ==
    entry = "extract_entities" =>
      /\ pc # "raised"
      /\ pc = "done" =>
           /\ response_text = None => ret = EmptyDict
           /\ (response_text # None /\ NoValidObject(response_text.text))
                => ret = EmptyDict

C10_Witness ==
    /\ entry = "extract_entities" /\ pc = "done"
    /\ response_text = [text |-> <<PROSE, LB, PROSE, RB>>]
    /\ ret = EmptyDict

(***************************************************************************)
(* Tier selector.                                                          *)
(***************************************************************************)
\* a direct classify_query_complexity call has returned
TierSelected == entry = "classify_query_complexity" /\ pc = "done"
\* the query has one of the nine keywords as a word of its own
HasKeywordWord(q) == \E i \in 1..Len(q) : q[i] \in complex_keywords
\* the words of the input set that hold a keyword once case is ignored
KeywordBearing ==
    complex_keywords \cup {<<"A", "n", "a", "l", "y", "z", "e">>, <<"r", "e", "a", "n", "a", "l", "y", "z", "e", "d">>}
\* the four steps as the specification lists them
ReferenceTier(words, context_length, keyword) ==
    IF words < 20 /\ context_length < 500 THEN FAST
    ELSE IF keyword THEN QUALITY
    ELSE IF context_length > 2000 \/ words > 50 THEN BALANCED
    ELSE FAST

\* C11 as stated: a query that contains an analytical keyword is given
\* QUALITY even when it has fewer than 20 words, whatever the context
\* length.
C11_KeywordAlwaysQuality ==
    (TierSelected /\ HasKeywordWord(args.query)) => ret.tier = QUALITY

\* C11 amended: a query of fewer than 20 words that contains an analytical
\* keyword is given QUALITY when the context length is at least 500, and
\* FAST when it is below 500; with 20 words or more it is given QUALITY
\* at every context length.
C11_ShortKeywordQualityFromContext500 ==
    (TierSelected /\ HasKeywordWord(args.query)) =>
        ret.tier = IF Len(args.query) < 20 /\ args.context_length < 500
                   THEN FAST ELSE QUALITY

C11_Witness ==
    /\ TierSelected
    /\ args.query = <<FillerWord, <<"a", "n", "a", "l", "y", "z", "e">>>>
    /\ args.context_length = 2001
    /\ ret.tier = QUALITY

\* C12: classify_query_complexity returns for every query and context
\* length, changes nothing but its result, and its result is the one of
\* the four-step reference: FAST under 20 words and under 500 of context,
\* else QUALITY on a keyword, else BALANCED over 2000 of context or over
\* 50 words, else FAST.
C12_SelectorIsReference ==
    entry = "classify_query_complexity" =>
      /\ pc = "done"
      /\ ret = [tier |->
                  ReferenceTier(Len(args.query), args.context_length,
                      \E i \in 1..Len(args.query) :
                          args.query[i] \in KeywordBearing)]
      /\ rpc = "idle" /\ generate_calls = <<>> /\ calls = <<>>
      /\ classification = None /\ entities = None
      /\ inventory_calls = <<>> /\ retrieval_calls = <<>>

C12_Witness ==
    /\ TierSelected
    /\ args.query = Filler(19) \o <<<<"A", "n", "a", "l", "y", "z", "e">>>>
    /\ args.context_length = 0
    /\ ret.tier = QUALITY

(***************************************************************************)
(* Response composer: generation outcome and routing.                      *)
(***************************************************************************)
\* the gate let the current classification through
GatePassed ==
    /\ IsNum(classification["confidence"])
    /\ classification["confidence"].num >= confidence_threshold
\* the generation call of generate_response was made and generate raised
GenerationFailed ==
    /\ generate_calls # <<>>
    /\ Last(generate_calls).caller = "generate_response"
    /\ rpc = "idle"
    /\ LastResortFailed

\* C13: when the gate passes and every provider attempt of the generation
\* call fails, the last resort included, generate_response does not raise:
\* it returns the Deferred decision with the generation-error reason and
\* the routing-table department of the intent string.
C13_GenerationFailureDeferred ==
    (entry \in {"generate_response", "process_email"} /\ GenerationFailed
       /\ GatePassed /\ IsStr(classification["intent"]))
    => /\ response_data =
            [requires_human |-> TRUE,
             reason |-> "Generation error: RetryError",
             suggested_department |->
                 ExpectedDepartment(classification["intent"].str),
             draft_response |-> None]
       /\ entry = "generate_response" => (pc = "done" /\ ret = response_data)

C13_Witness ==
    /\ entry = "generate_response" /\ pc = "done"
    /\ classification["intent"] = Str(TRANSFER_REQUEST)
    /\ classification["confidence"] = Num(90)
    /\ GenerationFailed
    /\ ret.reason = "Generation error: RetryError"
    /\ ret.suggested_department = "warehouse"

\* C14: route_to_department returns for every intent string and never
\* raises on one: a declared intent gets the department of the table, an
\* undeclared string gets customer_service.
C14_RoutingTotalOnStrings ==
    (entry = "route_to_department" /\ IsStr(args.intent))
    => /\ pc = "done"
       /\ ret = [department |-> ExpectedDepartment(args.intent.str)]

C14_Witness ==
    /\ entry = "route_to_department" /\ pc = "done"
    /\ args.intent = Str("spam")
    /\ ret.department = "customer_service"

\* C15: when the confidence is at or above the threshold and the
\* generation call returns, generate_response returns the Generated
\* decision: requires_human false, the router's text, the routing-table
\* department of the intent string, the confidence of the classification,
\* the router's model_used and the inventory rows that were looked up.
C15_GeneratedCarriesRouterResult ==
    [][(entry = "generate_response" /\ pc = "generate_response"
          /\ rpc = "returned" /\ GatePassed
          /\ IsStr(classification["intent"]))
       => /\ pc' = "done"
          /\ ret' = [requires_human |-> FALSE,
                     response |-> result.response,
                     department |->
                         ExpectedDepartment(classification["intent"].str),
                     inventory_data |-> inventory_info,
                     confidence |-> classification["confidence"],
                     model_used |-> result.model_used]]_vars

C15_Witness ==
    /\ entry = "generate_response" /\ pc = "done"
    /\ classification["intent"] = Str(PARTS_ORDER)
    /\ classification["confidence"] = Num(75)
    /\ ~ret.requires_human
    /\ ret.department = "sales"
    /\ ret.model_used = "mistral"
    /\ Len(ret.inventory_data) = 2
    /\ Len(inventory_calls) = 2

\* C16: every dict classify_intent returns has a numeric confidence within
\* 0.0 to 1.0 (0 to 100 hundredths) and an intent that is one of the seven
\* declared intents, whatever the response text of the model.
C16_ClassificationInRange ==
    (entry = "classify_intent" /\ pc = "done")
    => /\ IsNum(ret["confidence"])
       /\ ret["confidence"].num \in 0..100
       /\ IsStr(ret["intent"])
       /\ ret["intent"].str \in EmailIntent

\* C17: when the retrieval store finds nothing, build_rag_context returns
\* the "no relevant information" sentinel, and the prompt of the generation
\* call never carries the sentinel in its Relevant Information section.
C17_SentinelNeverInPrompt ==
    (entry = "generate_response" /\ context = NoRelevantInformation
       /\ generate_calls # <<>>)
    => \A i \in 1..Len(prompt.relevant) :
           prompt.relevant[i] # NoRelevantInformation

(***************************************************************************)
(* Inbox runs.                                                             *)
(***************************************************************************)
Range(q) == {q[i] : i \in 1..Len(q)}
\* the emails the loop has finished with
Handled ==
    {emails[i] : i \in 1..(IF bpc \in {"process_email", "send_email"}
                           THEN email_i - 1 ELSE Len(attempted))}
\* what the call answered for the email
Answered(id, call, answer) == Answer(id, call, answer) \in Range(answers)
LoopLeft == runner # "none" /\ bpc \in {"commit", "done", "raised"}

\* C18: in an inbox run every fetched email is passed to process_email
\* exactly once and in fetch order, whatever happened to the emails before
\* it (an exception of process_email included), and what the run does for
\* an email (reply sent, marked read, moved for review, logged, counted)
\* is decided by the answers to that email's own calls.
C18_BatchIsolation ==
    /\ attempted = SubSeq(emails, 1, Len(attempted))
    /\ LoopLeft => attempted = emails
    /\ \A id \in Handled :
         /\ id \in Range(send_email_calls) <=>
              /\ Answered(id, "process_email", "generated")
              /\ runner = "process_inbox" => auto_respond
         /\ id \in Range(move_to_folder_calls) <=>
              /\ Answered(id, "process_email", "deferred")
              /\ runner = "process_inbox_task"
         /\ id \in Range(mark_as_read_calls) <=>
              IF runner = "process_inbox_task"
              THEN Answered(id, "send_email", TRUE)
              ELSE ~Answered(id, "process_email", "raised")
         /\ (\E i \in 1..Len(email_logs) : email_logs[i].email_id = id) <=>
              /\ runner = "process_inbox"
              /\ ~Answered(id, "process_email", "raised")
    /\ processed_count =
         Cardinality({id \in Range(attempted) :
                        \E d \in Decisions :
                            Answered(id, "process_email", d)})

C18_Witness ==
    /\ runner = "process_inbox_task" /\ bpc = "done"
    /\ emails = EmailIds(MaxEmails)
    /\ attempted = emails
    /\ Answered(1, "process_email", "raised")
    /\ Answered(2, "process_email", "deferred")
    /\ Answered(MaxEmails, "send_email", TRUE)
    /\ batch_ret.processed = MaxEmails - 1

(***************************************************************************)
(* Concurrent runs.                                                        *)
(***************************************************************************)
\* the run carried on with no other run on the event loop
RECURSIVE Finish(_)
Finish(run) ==
    IF run.pc \in {"done", "raised"} THEN run ELSE Finish(RunStep(run))
\* process_email run alone against the answers of the script
Alone(script) == Finish(InitialRun(script))

TotalBudget == TierBudget + MaxAttempts
GenerateRunning == entry = "generate" /\ pc = "generate"
GenerateEnded == entry = "generate" /\ pc \in {"done", "raised"}

\* C20: a generate call, whatever its tier and whatever attempts fail or
\* time out, makes at most 9 provider attempts (6 when the tier is not
\* BALANCED) and then has returned or raised; a timed-out attempt counts
\* in the retry policy like any failed attempt, so a call raises only
\* after the full number of attempts.
C20_GenerateTerminates ==
    /\ [](entry = "generate" =>
            /\ Len(calls) <= TotalBudget
            /\ timeouts <= Cardinality({i \in 1..Len(calls) : ~calls[i].ok})
            /\ pc = "raised" => Len(calls) = TotalBudget)
    /\ GenerateRunning ~> GenerateEnded

C20_Witness ==
    /\ GenerateEnded /\ pc = "raised"
    /\ tier = BALANCED
    /\ Len(calls) = 3 * MaxAttempts
    /\ timeouts = Len(calls)

(***************************************************************************)
(* Decisions of the response composer.                                     *)
(***************************************************************************)
\* the classification has an intent string and a numeric confidence
TypedClassification ==
    /\ classification # None
    /\ IsStr(classification["intent"])
    /\ IsNum(classification["confidence"])
IsDeferred(d) ==
    DOMAIN d = {"requires_human", "reason", "suggested_department",
                "draft_response"} /\ d.requires_human
IsGenerated(d) ==
    DOMAIN d = {"requires_human", "response", "department",
                "inventory_data", "confidence", "model_used"}
        /\ ~d.requires_human

\* C21: generate_response and process_email never raise to their caller,
\* whatever the classification, the entities and the failures of the
\* providers, the retrieval store and the inventory lookup; what they
\* return holds exactly one decision, Deferred or Generated.
C21_AlwaysOneDecision ==
    (entry \in {"generate_response", "process_email"}
       /\ (classification # None => TypedClassification))
    => /\ pc # "raised"
       /\ pc = "done" =>
             (IsDeferred(response_data) /\ ~IsGenerated(response_data))
             \/ (IsGenerated(response_data) /\ ~IsDeferred(response_data))

\* the generation calls of the run, as positions in generate_calls
GenerationCalls ==
    {i \in 1..Len(generate_calls) :
        generate_calls[i].caller = "generate_response"}

\* C22: a run makes at most one generation call from generate_response,
\* also when that call fails, and the call asks for QUALITY exactly when
\* the intent is complaint and for BALANCED for every other intent.
C22_OneGenerationCallTierByIntent ==
    entry \in {"generate_response", "process_email"} =>
        /\ Cardinality(GenerationCalls) <= 1
        /\ \A i \in GenerationCalls :
              generate_calls[i].tier =
                  IF classification["intent"] = Str(COMPLAINT)
                  THEN QUALITY ELSE BALANCED

C22_Witness ==
    /\ entry = "process_email" /\ pc \in {"done", "raised"}
    /\ classification["intent"] = Str(COMPLAINT)
    /\ GenerationFailed
    /\ Cardinality(GenerationCalls) = 1
    /\ Last(generate_calls).tier = QUALITY

(***************************************************************************)
(* Enrichment.                                                             *)
(***************************************************************************)
ExtractedSkus == Get(entities, "part_skus", List(<<>>)).list
PartsWithSkus ==
    /\ classification["intent"] \in {Str(PARTS_ORDER), Str(INVENTORY_CHECK)}
    /\ ExtractedSkus # <<>>
\* the lookups and the retrieval calls the claim allows, in order
ExpectedInventory ==
    IF PartsWithSkus
    THEN SubSeq(ExtractedSkus, 1,
                IF Len(ExtractedSkus) < 5 THEN Len(ExtractedSkus) ELSE 5)
    ELSE <<>>
ExpectedRetrieval ==
    IF PartsWithSkus THEN <<"parts">>
    ELSE IF classification["intent"] = Str(SERVICE_INQUIRY) THEN <<"faq">>
    ELSE <<>>
RetrievalTypes == [i \in 1..Len(retrieval_calls) |->
                     retrieval_calls[i].context_type]
IsPrefix(p, q) == Len(p) <= Len(q) /\ p = SubSeq(q, 1, Len(p))

\* C23: once the gate has passed, the inventory lookups are those of the
\* first min(5, n) extracted SKUs in order and one parts retrieval follows
\* them, for parts_order and inventory_check with a non-empty SKU list; a
\* service_inquiry makes one FAQ retrieval on the first 200 characters of
\* the body and no lookup; any other case makes neither.  Nothing else is
\* looked up, and all of it is done before the generation call.
C23_EnrichmentByIntentAndSkus ==
    (GateReached /\ GatePassed) =>
        /\ IsPrefix(inventory_calls, ExpectedInventory)
        /\ IsPrefix(RetrievalTypes, ExpectedRetrieval)
        /\ retrieval_calls # <<>> => inventory_calls = ExpectedInventory
        /\ GenerationCalls # {} => RetrievalTypes = ExpectedRetrieval
        /\ \A i \in 1..Len(retrieval_calls) :
              retrieval_calls[i].context_type = "faq" =>
                  LET q == retrieval_calls[i].query
                  IN  q.chars = IF q.of < 200 THEN q.of ELSE 200

C23_Witness ==
    /\ entry = "generate_response" /\ pc = "done"
    /\ classification["intent"] = Str(INVENTORY_CHECK)
    /\ Len(ExtractedSkus) = MaxSkus
    /\ Len(inventory_calls) = 5
    /\ RetrievalTypes = <<"parts">>
    /\ ~ret.requires_human

\* what the claim calls "given": an argument that is a string with content
Given(x) == x # None /\ x # Str("")
GivenFilter(k, x) == IF Given(x) THEN {<<k, x.str>>} ELSE {}
FiltersOf(call) == {<<k, call.filters[k].str>> : k \in DOMAIN call.filters}
ClaimedLimit(context_type) ==
    CASE context_type = "parts" -> 10
      [] context_type = "faq" -> 3
      [] OTHER -> 5
ClaimedFilters(a) ==
    CASE a.context_type = "parts" ->
            {<<"type", "parts_catalog">>}
                \cup GivenFilter("location_id", a.location_id)
      [] a.context_type = "faq" ->
            {<<"type", "faq">>} \cup GivenFilter("department", a.department)
      [] a.context_type = "policy" -> {<<"type", "policy">>}
      [] OTHER ->
            GivenFilter("location_id", a.location_id)
                \cup GivenFilter("department", a.department)

\* C24: a build_rag_context call issues exactly one store search, with the
\* filters and the limit its context_type selects (parts: type=parts_catalog
\* plus a given location_id, limit 10; faq: type=faq plus a given
\* department, limit 3; policy: type=policy, limit 5; anything else: only
\* the given location and department, limit 5), and the block it returns
\* lists the results in the order the store returned them, labelled
\* Source 1..n.
C24_OneSearchByContextType ==
    rag_pc # "idle" =>
        /\ Len(search_calls) = 1
        /\ search_calls[1].limit = ClaimedLimit(rag_args.context_type)
        /\ FiltersOf(search_calls[1]) = ClaimedFilters(rag_args)
        /\ (rag_pc = "done" /\ Len(search_results) > 0) =>
                /\ DOMAIN rag_ret.sources = 1..Len(search_results)
                /\ \A i \in 1..Len(search_results) :
                        /\ rag_ret.sources[i].source = i
                        /\ rag_ret.sources[i].content = search_results[i]
C24_Witness ==
    /\ rag_pc = "done"
    /\ rag_args.context_type = "faq"
    /\ rag_args.department = Str("support")
    /\ rag_args.location_id = Str("downtown")
    /\ search_results = <<"passage2", "passage1">>

\* the first JSON object of a text: the leftmost part json.loads accepts
ObjectStarts(text) ==
    {i \in 1..Len(text) :
        \E j \in i..Len(text) : json_loads(SubSeq(text, i, j)).ok}
FirstObject(text) ==
    LET i == Min(ObjectStarts(text))
        j == CHOOSE k \in i..Len(text) : json_loads(SubSeq(text, i, k)).ok
    IN  json_loads(SubSeq(text, i, j)).val

\* C25: when the response holds a valid JSON object, with prose, stray
\* braces or further objects before or after it, the classifier and the
\* extractor return the fields of the first JSON object of the text (for
\* the classifier: of a first object that has the intent and confidence the
\* log line reads).
C25_FirstObjectParsed ==
    (/\ entry \in {"classify_intent", "extract_entities"}
     /\ pc = "done"
     /\ response_text # None
     /\ ObjectStarts(response_text.text) # {}
     /\ entry = "classify_intent" =>
            {"intent", "confidence"}
                \subseteq DOMAIN FirstObject(response_text.text))
    => ret = FirstObject(response_text.text)

\* the log of the running generate call
LogPositions(message) ==
    {i \in 1..Len(log_events) : log_events[i].message = message}
ErrorMessage(p) ==
    CASE p = "claude" -> "Claude API error"
      [] p = "mistral" -> "Mistral API error"
      [] OTHER -> "Llama API error"
FailedAttempts(p) == {i \in Attempts(p) : ~calls[i].ok}
PhaseEntered(ph) == rpc = ph \/ PhaseAttempts(ph) # {}
\* the fallback transitions and the fatal failure are in the log as soon as
\* they are taken
TransitionsLogged ==
    /\ PhaseEntered("mistral_fallback") =>
            LogPositions("Mistral failed, falling back to Llama") # {}
    /\ PhaseEntered("last_resort") =>
            \E i \in LogPositions("All LLM attempts failed") :
                i + 1 \in LogPositions("Attempting fallback to Llama")
    /\ LastResortFailed =>
            log_events[Len(log_events)].message = "Fallback also failed"

\* C26 as stated: every failed provider attempt has its own log event, and
\* the BALANCED-to-FAST fallback, the start of the last-resort attempt and
\* the fatal failure are logged when they happen.
C26_EveryFailureLogged ==
    /\ \A p \in Providers :
            Cardinality(LogPositions(ErrorMessage(p)))
                = Cardinality(FailedAttempts(p))
    /\ TransitionsLogged

\* C26, amended: every failed attempt of a configured provider has its own
\* log event before the next attempt starts; an attempt that fails because
\* the provider's key is missing logs nothing itself.  The BALANCED-to-FAST
\* fallback, the start of the last-resort attempt and the fatal failure are
\* logged when they happen, so every provider that gave up is reported.
C26_ReachedFailuresLogged ==
    /\ \A p \in Providers :
            Cardinality(LogPositions(ErrorMessage(p)))
                = IF Configured(p) THEN Cardinality(FailedAttempts(p)) ELSE 0
    /\ TransitionsLogged
C26_Witness ==
    /\ entry = "generate"
    /\ tier = BALANCED /\ ~mistral_api_key
    /\ LastResortFailed
    /\ Cardinality(FailedAttempts("mistral")) = MaxAttempts
    /\ Cardinality(LogPositions("Llama API error")) = 2 * MaxAttempts

\* the attempt that produced the text of the result
ServingAttempt == calls[Len(calls)]
ResultTags(r) == <<r.model_used, r.tier>>

\* C27: the result of generate has the requested tier (fast, balanced or
\* quality) and as model_used the provider whose attempt produced the text,
\* except that a result of the last-resort attempt is tagged model_used =
\* llama3_fallback and tier = fallback; no other result has either tag.
C27_ResultReportsServer ==
    /\ rpc = "returned" =>
        /\ ServingAttempt.ok
        /\ IF ServingAttempt.phase = "last_resort"
           THEN ResultTags(result) = <<"llama3_fallback", "fallback">>
           ELSE /\ result.tier = tier
                /\ result.tier \in {FAST, BALANCED, QUALITY}
                /\ result.model_used = ServingAttempt.provider
                /\ result.model_used \in Providers
    /\ (entry = "generate" /\ pc = "done") =>
        /\ ret.tier = Last(generate_calls).tier
              \/ ResultTags(ret) = <<"llama3_fallback", "fallback">>
        /\ ret.model_used = "llama3_fallback" <=> ret.tier = "fallback"
        /\ ret.tier = "fallback" <=> ServingAttempt.phase = "last_resort"
C27_Witness ==
    /\ entry = "generate" /\ pc = "done"
    /\ Last(generate_calls).tier = FAST
    /\ Len(calls) = MaxAttempts + 1
    /\ ServingAttempt.provider = "llama3"
    /\ ResultTags(ret) = <<"llama3_fallback", "fallback">>

\* C28: in process_inbox_task an email (the message the id named when it
\* was fetched) is marked read only after its auto-response was sent, is
\* moved to NeedsReview exactly when its decision requires a human, is
\* neither marked read nor moved when its send failed or its processing
\* raised, and is never both auto-responded and moved.
C28_OneDispositionPerEmail ==
    runner = "process_inbox_task" =>
        \A id \in Range(emails) :
            /\ id \in marked_read => Answered(id, "send_email", TRUE)
            /\ id \in needs_review
                  <=> Answered(id, "process_email", "deferred")
            /\ (Answered(id, "send_email", FALSE)
                  \/ Answered(id, "process_email", "raised"))
                  => id \notin marked_read \cup needs_review
            /\ ~(Answered(id, "send_email", TRUE) /\ id \in needs_review)

\* C29: whatever calls were made on the shared listener before, a
\* fetch_unread_emails call that gets past connecting selects the folder on
\* a logged-in connection; after disconnect the next fetch connects anew.
C29_FetchOnLoggedInConnection ==
    \A i \in 1..Len(listener_calls) :
        (/\ listener_calls[i].call = "fetch_unread_emails"
         /\ listener_calls[i].outcome # "raised")
        => listener_calls[i].on = "logged_in"

Total(stock) ==
    LET RECURSIVE Sum(_)
        Sum(S) == IF S = {} THEN 0
                  ELSE LET l == CHOOSE x \in S : TRUE
                       IN  stock[l] + Sum(S \ {l})
    IN  Sum(DOMAIN stock)

\* C30: after any sequence of transfer_inventory calls, with any integer
\* quantity, every call has left the part's total over the two locations
\* as it was and no quantity is negative; a call whose source holds less
\* than the requested quantity returned no result, changed no quantity and
\* created no TRANSFERRED edge.
C30_TransfersConserveStock ==
    /\ \A l \in DOMAIN has_inventory : has_inventory[l] >= 0
    /\ \A i \in 1..Len(transfer_calls) :
        LET c == transfer_calls[i]
        IN  /\ Total(c.after) = Total(c.before)
            /\ (/\ c.from_location_id \in DOMAIN c.before
                /\ c.before[c.from_location_id] < c.quantity)
                => /\ c.result = None
                   /\ c.after = c.before
                   /\ c.edges = IF i = 1 THEN 0
                                ELSE transfer_calls[i - 1].edges
====
